---------------------------- MODULE Spec2Model ----------------------------
(***************************************************************************)
(* Verification model of the CryptoPanic news scraper.                     *)
(*                                                                         *)
(*   SpecBatch : the concurrent batch processor of                         *)
(*               scrapers/cryptopanic.py (_process_article_elements,       *)
(*               _process_elements_batch, _process_single_element)         *)
(*   SpecStore : the deduplicating bulk store of                           *)
(*               storage/postgres_storage.py (save_data_sources)           *)
(*   SpecTab   : the external-link resolver and the tab manager            *)
(*               (_extract_external_url_safe, TabManager.click_and_get_url)*)
(*   SpecFilter : the incremental filter                                   *)
(*               (_filter_elements_by_published_date)                      *)
(*   SpecValid : DataSource.is_valid of models/data_source.py              *)
(*   SpecConfig : config.py and the values the batch processor runs with   *)
(*   SpecElement : the processing of one element (_process_single_element, *)
(*               _extract_published_at, _extract_data_source)              *)
(*   SpecValidated : the processing of one element, or calls of the store  *)
(*   SpecRun   : one run of main.run_scraping                              *)
(*   SpecBatchLive : SpecBatch with fairly scheduled threads               *)
(*   SpecCurrency : _extract_currencies                                    *)
(***************************************************************************)
EXTENDS Integers, Sequences, FiniteSets, TLC

\* ------------------------------------------------------------------ bounds
MaxElems == 3
MaxWorkers == 2
MaxBatch == 2
MaxList == 3
MaxRows == 4
MaxTabs == 2
MaxFilterLen == 4
MaxTime == 3
MaxEnvLen == 2
MaxSubElems == 2
MaxPage == 2
MaxLinks == 3

VARIABLES
    \* --- concurrent batch processor ---
    max_workers,    \* self.max_workers
    batch_size,     \* self.batch_size
    total_count,    \* len(elements); the elements are 1..total_count
    pc,             \* per element: position of its _process_single_element task
    driver_lock,    \* self.driver_lock: 0 when free, else the holding element
    future,         \* per element: the value its future holds (NoResult before)
    results,        \* the results list of the running _process_elements_batch
    data_sources,   \* the data_sources list of _process_article_elements
    i,              \* the loop variable of _process_article_elements
    mainpc,         \* position of the thread running _process_article_elements
    \* --- deduplicating bulk store ---
    table,          \* the data_source table: number of rows per sample Record
    last,           \* the outcome of the last save_data_sources call
    input,          \* the list the caller passes on every call (SpecStoreTwice)
    \* --- external-link resolver and tab manager ---
    window_handles, \* driver.window_handles: the open tabs, oldest first
    current,        \* driver.current_window_handle (a closed handle after close())
    opened,         \* number of tabs opened by clicks so far
    pending,        \* tabs requested by a click that have not appeared yet
    tpc,            \* position in _extract_external_url_safe / click_and_get_url
    elem,           \* the element being resolved
    original_tab,   \* click_and_get_url: original_tab
    original_tab_count, \* click_and_get_url: original_tab_count
    url,            \* click_and_get_url: url / its return value
    final_url,      \* the value _extract_external_url_safe returned
    clicks,         \* calls of click_and_get_url made by the running resolver call
    failedAt,       \* the step of click_and_get_url that failed ("none" if none)
    restoreFailed,  \* a step that restores the original tab raised
    steps,          \* resolution steps the running resolver call has performed
    tried,          \* the resolver steps of the running call, in the order tried
    \* --- incremental filter ---
    all_elements,   \* the publish time of each element of the page, in page order
    last_published_at, \* the watermark handed to the filter (None when absent)
    filtered_elements, \* the list the filter returned: positions in all_elements
    fpc,            \* "call" before the filter has run, "done" after
    \* --- Record validation ---
    record,         \* a DataSource: its url, summary, type and id
    is_valid,       \* what record.is_valid() returned
    vpc,            \* "call" before is_valid has run, "done" after
    \* --- configuration ---
    environ,        \* os.environ: SCRAPING_MAX_WORKERS and SCRAPING_BATCH_SIZE
    SCRAPING_MAX_WORKERS, \* Config.SCRAPING_MAX_WORKERS
    SCRAPING_BATCH_SIZE,  \* Config.SCRAPING_BATCH_SIZE
    scraper,        \* max_workers and batch_size of the constructed scraper
    pool,           \* the worker count and slice length the processor ran with
    cpc,            \* "import", "loaded", "constructed", then "ran", "skipped"
                    \* or "raised"
    \* --- processing of one element ---
    element,        \* what the driver reads from the element
    data_source,    \* _process_single_element: data_source (NoRecord before)
    result,         \* the dict _process_single_element returned
    extracted,      \* what _extract_data_source returned (NoRecord for None)
    epc,            \* "idle", "start", "built", "done" or "extracted"
    \* --- one run of main.run_scraping ---
    database,       \* what the database does during the run
    page,           \* the elements of the page: Record and publish time
    storage,        \* "unset", "none" (setup failed), "connected" or "closed"
    watermark,      \* last_published_at of run_scraping (NoTime for None)
    processed,      \* the positions of the elements given to the processor
    all_data_sources,   \* run_scraping: all_data_sources
    new_data_sources,   \* run_scraping: new_data_sources
    saved_successfully, \* run_scraping: saved_successfully
    fallback_json,  \* the Records written to the fallback JSON file
    fallback_written,   \* save_to_fallback_json has written the file
    rpc,            \* position in run_scraping
    \* --- currency extraction ---
    currency_links, \* the ".nc-currency a.colored-link" elements of an element
    extracted_currencies, \* what _extract_currencies returned
    kpc             \* "call" before _extract_currencies has run, "done" after

batchVars == <<max_workers, batch_size, total_count, pc, driver_lock, future,
               results, data_sources, i, mainpc>>

storeVars == <<table, last, input>>

tabVars == <<window_handles, current, opened, pending, tpc, elem,
             original_tab, original_tab_count, url, final_url, clicks,
             failedAt, restoreFailed, steps, tried>>

filterVars == <<all_elements, last_published_at, filtered_elements, fpc>>

\* the variables of the machines other than the batch processor, the store
\* and the resolver
validVars == <<record, is_valid, vpc>>

configVars == <<environ, SCRAPING_MAX_WORKERS, SCRAPING_BATCH_SIZE, scraper,
                pool, cpc>>

elemVars == <<element, data_source, result, extracted, epc>>

runVars == <<database, page, storage, watermark, processed, all_data_sources,
             new_data_sources, saved_successfully, fallback_json,
             fallback_written, rpc>>

currencyVars == <<currency_links, extracted_currencies, kpc>>

laterVars == <<filterVars, validVars, currencyVars, configVars, elemVars,
              runVars>>

vars == <<batchVars, storeVars, tabVars, laterVars>>

\* ------------------------------------------------------------- helpers
Elements == 1..total_count

\* elements[i : i + batch_size] (i is 0-based as in the code)
BatchElementsWithRetry == {e \in Elements : (e > i /\ e <= i + batch_size) \/ (pc[e] = "done" /\ ~future[e].success)}
BatchElements == {e \in Elements : e > i /\ e <= i + batch_size}

\* index of the batch that the loop puts element e in
BatchOf(e) == (e - 1) \div batch_size

NoResult == [idx |-> 0, success |-> FALSE, error |-> "pending"]

Failure(e, reason) == [idx |-> e, success |-> FALSE, error |-> reason]

Success(e) == [idx |-> e, success |-> TRUE, error |-> "none"]

\* the steps of _process_single_element that touch the shared driver
DriverSteps == {"liveness", "extract", "resolve", "tab", "publish"}

RunningSteps == DriverSteps \cup {"waitlock", "validate"}

Running == {e \in Elements : pc[e] \in RunningSteps}

Queued == {e \in Elements : pc[e] = "queued"}

\* threading.Lock: acquire blocks until the lock is free
LockFreeOpen == TRUE
LockFree == driver_lock = 0

\* results.append(result) for a completed future, failure dicts included
CollectSuccessOnly(rs, r) == IF r.success THEN Append(rs, r) ELSE rs
Collect(rs, r) == Append(rs, r)

\* leaving the "with ThreadPoolExecutor" block and the as_completed loop:
\* every future of the batch is done
BatchCompleteNoWait == TRUE
BatchComplete == \A e \in BatchElements : pc[e] = "done"

RECURSIVE SuccessesOf(_)
SuccessesOf(rs) ==
    IF rs = <<>> THEN <<>>
    ELSE IF Head(rs).success THEN <<Head(rs).idx>> \o SuccessesOf(Tail(rs))
         ELSE SuccessesOf(Tail(rs))

\* for result in batch_results: if result["success"] ...: data_sources.append
MergePrepend(ds, rs) == SuccessesOf(rs) \o ds
Merge(ds, rs) == ds \o SuccessesOf(rs)

\* --------------------------------------------------------------- Init
InitBatch ==
    /\ max_workers \in 1..MaxWorkers
    /\ batch_size \in 1..MaxBatch
    /\ total_count \in 0..MaxElems
    /\ pc = [e \in 1..MaxElems |-> "idle"]
    /\ driver_lock = 0
    /\ future = [e \in 1..MaxElems |-> NoResult]
    /\ results = <<>>
    /\ data_sources = <<>>
    /\ i = 0
    /\ mainpc = "loop"

\* ------------------------------------------ _process_article_elements
\* one iteration of "for i in range(0, total_count, batch_size)" enters
\* _process_elements_batch, which submits every element of the slice
StartBatch ==
    /\ mainpc = "loop"
    /\ i < total_count
    /\ pc' = [e \in 1..MaxElems |->
                 IF e \in BatchElements THEN "queued" ELSE pc[e]]
    /\ results' = <<>>
    /\ mainpc' = "batch"
    /\ UNCHANGED <<storeVars, tabVars, laterVars, max_workers, batch_size, total_count, driver_lock, future,
                   data_sources, i>>

\* _process_elements_batch returns; its results are merged; next i
EndBatch ==
    /\ mainpc = "batch"
    /\ BatchComplete
    /\ data_sources' = Merge(data_sources, results)
    /\ i' = i + batch_size
    /\ mainpc' = "loop"
    /\ UNCHANGED <<storeVars, tabVars, laterVars, max_workers, batch_size, total_count, pc, driver_lock,
                   future, results>>

\* the loop is exhausted (or the list was empty): return data_sources
Return ==
    /\ mainpc = "loop"
    /\ i >= total_count
    /\ mainpc' = "returned"
    /\ UNCHANGED <<storeVars, tabVars, laterVars, max_workers, batch_size, total_count, pc, driver_lock,
                   future, results, data_sources, i>>

\* ------------------------------------------------ worker pool threads
\* a pool thread takes the oldest queued task; at most max_workers run
Begin(e) ==
    /\ pc[e] = "queued"
    /\ \A f \in Queued : e <= f
    /\ Cardinality(Running) < max_workers
    /\ pc' = [pc EXCEPT ![e] = "waitlock"]
    /\ UNCHANGED <<storeVars, tabVars, laterVars, max_workers, batch_size, total_count, driver_lock, future,
                   results, data_sources, i, mainpc>>

\* "with self.driver_lock:" entered
Acquire(e) ==
    /\ pc[e] = "waitlock"
    /\ LockFree
    /\ driver_lock' = e
    /\ pc' = [pc EXCEPT ![e] = "liveness"]
    /\ UNCHANGED <<storeVars, tabVars, laterVars, max_workers, batch_size, total_count, future, results,
                   data_sources, i, mainpc>>

\* a return from inside the with block that keeps the lock
ReturnLockedKeepingLock(e, r) ==
    /\ pc' = [pc EXCEPT ![e] = "done"]
    /\ future' = [future EXCEPT ![e] = r]
    /\ results' = Collect(results, r)
    /\ UNCHANGED <<storeVars, tabVars, laterVars, max_workers, batch_size, total_count, data_sources, i,
                   mainpc, driver_lock>>
\* a return from inside the with block: the lock is released, the future
\* gets the dict, and the as_completed loop appends it to results
ReturnLocked(e, r) ==
    /\ driver_lock' = (IF driver_lock = e THEN 0 ELSE driver_lock)
    /\ pc' = [pc EXCEPT ![e] = "done"]
    /\ future' = [future EXCEPT ![e] = r]
    /\ results' = Collect(results, r)
    /\ UNCHANGED <<storeVars, tabVars, laterVars, max_workers, batch_size, total_count, data_sources, i,
                   mainpc>>

\* a step inside the with block that goes on to the next step
Advance(e, next) ==
    /\ pc' = [pc EXCEPT ![e] = next]
    /\ UNCHANGED <<storeVars, tabVars, laterVars, max_workers, batch_size, total_count, driver_lock, future,
                   results, data_sources, i, mainpc>>

\* element.tag_name / element.is_displayed()
Liveness(e) ==
    /\ pc[e] = "liveness"
    /\ \E o \in {"ok", "hidden", "stale"} :
         \/ o = "ok" /\ Advance(e, "extract")
         \/ o = "hidden" /\ ReturnLocked(e, Failure(e, "Element not displayed"))
         \/ o = "stale" /\ ReturnLocked(e, Failure(e, "Element stale"))

\* _extract_title_from_element / _extract_cryptopanic_url
Extract(e) ==
    /\ pc[e] = "extract"
    /\ \E found \in BOOLEAN :
         \/ found /\ Advance(e, "resolve")
         \/ ~found /\ ReturnLocked(e, Failure(e, "Title or URL not found"))

\* _extract_external_url_safe: press check and the scans; the interactive
\* fallback (click, new tab) is the step "tab"
Resolve(e) ==
    /\ pc[e] = "resolve"
    /\ \E click \in BOOLEAN :
         \/ click /\ Advance(e, "tab")
         \/ ~click /\ Advance(e, "publish")

\* tab_manager.click_and_get_url: open, switch, read, close, switch back
Tab(e) ==
    /\ pc[e] = "tab"
    /\ Advance(e, "publish")

\* _extract_published_at, the pre-validation and from_cryptopanic_news,
\* with the validation placed inside the with block
PublishInsideLock(e) ==
    /\ pc[e] = "publish"
    /\ \E o \in {"ok", "title", "url", "raise"} :
         \/ o = "ok" /\ Advance(e, "validate")
         \/ o = "title" /\ ReturnLocked(e, Failure(e, "Invalid title"))
         \/ o = "url" /\ ReturnLocked(e, Failure(e, "Invalid URL"))
         \/ o = "raise" /\ ReturnLocked(e, Failure(e, "DataSource creation failed"))
\* _extract_published_at, the pre-validation and from_cryptopanic_news;
\* on success the with block is left and the lock released
Publish(e) ==
    /\ pc[e] = "publish"
    /\ \E o \in {"ok", "title", "url", "raise"} :
         \/ /\ o = "ok"
            /\ driver_lock' = (IF driver_lock = e THEN 0 ELSE driver_lock)
            /\ pc' = [pc EXCEPT ![e] = "validate"]
            /\ UNCHANGED <<storeVars, tabVars, laterVars, max_workers, batch_size, total_count, future,
                           results, data_sources, i, mainpc>>
         \/ o = "title" /\ ReturnLocked(e, Failure(e, "Invalid title"))
         \/ o = "url" /\ ReturnLocked(e, Failure(e, "Invalid URL"))
         \/ o = "raise" /\ ReturnLocked(e, Failure(e, "DataSource creation failed"))

\* data_source.is_valid() outside the lock; the outer except turns an
\* exception into a failure dict
Validate(e) ==
    /\ pc[e] = "validate"
    /\ \E o \in {"valid", "invalid", "raise"} :
         LET r == CASE o = "valid" -> Success(e)
                    [] o = "invalid" -> Failure(e, "Invalid data source")
                    [] OTHER -> Failure(e, "exception")
         IN  /\ pc' = [pc EXCEPT ![e] = "done"]
             /\ future' = [future EXCEPT ![e] = r]
             /\ results' = Collect(results, r)
             /\ UNCHANGED <<storeVars, tabVars, laterVars, max_workers, batch_size, total_count, driver_lock,
                            data_sources, i, mainpc>>

NextBatch ==
    \/ StartBatch
    \/ EndBatch
    \/ Return
    \/ \E e \in 1..MaxElems : Begin(e)
    \/ \E e \in 1..MaxElems : Acquire(e)
    \/ \E e \in 1..MaxElems : Liveness(e)
    \/ \E e \in 1..MaxElems : Extract(e)
    \/ \E e \in 1..MaxElems : Resolve(e)
    \/ \E e \in 1..MaxElems : Tab(e)
    \/ \E e \in 1..MaxElems : Publish(e)
    \/ \E e \in 1..MaxElems : Validate(e)

\* ====================================================================
\* Record (models/data_source.py) and the deduplicating bulk store
\* (storage/postgres_storage.py)
\* ====================================================================

\* strings are sequences of characters
HttpsPrefix == <<"h", "t", "t", "p", "s", ":", "/", "/">>
HttpPrefix == <<"h", "t", "t", "p", ":", "/", "/">>

\* str.startswith
StartsWith(s, p) == Len(s) >= Len(p) /\ SubSeq(s, 1, Len(p)) = p

IsSpace(c) == c = " "

\* str.strip
RECURSIVE LStrip(_)
LStrip(s) == IF s # <<>> /\ IsSpace(Head(s)) THEN LStrip(Tail(s)) ELSE s

RECURSIVE RStrip(_)
RStrip(s) ==
    IF s # <<>> /\ IsSpace(s[Len(s)]) THEN RStrip(SubSeq(s, 1, Len(s) - 1))
    ELSE s

Strip(s) == RStrip(LStrip(s))

\* DataSource.is_valid
MinSummaryLen == 3
IsValidUrlOnly(r) ==
    /\ r.url # <<>>
    /\ (StartsWith(Strip(r.url), HttpPrefix) \/ StartsWith(Strip(r.url), HttpsPrefix))
IsValid(r) ==
    /\ r.url # <<>>
    /\ Len(Strip(r.url)) # 0
    /\ (StartsWith(Strip(r.url), HttpPrefix) \/ StartsWith(Strip(r.url), HttpsPrefix))
    /\ r.summary # <<>>
    /\ Len(Strip(r.summary)) >= MinSummaryLen
    /\ r.type # <<>>
    /\ r.id # <<>>

\* "x in s" for strings
Contains(s, sub) ==
    \E k \in 1..(Len(s) - Len(sub) + 1) : SubSeq(s, k, k + Len(sub) - 1) = sub

\* the Records handed to the store in this model: two valid Records with
\* different URLs, a Record that fails is_valid, a Record whose published_at
\* is not a datetime, and a Record whose summary holds a NUL character
RecordIds == {"a", "b", "bad", "c", "s"}

UrlA == HttpsPrefix \o <<"a">>
UrlB == HttpPrefix \o <<"b">>
UrlC == HttpsPrefix \o <<"c">>
UrlS == HttpsPrefix \o <<"s">>
UrlFtp == <<"f", "t", "p", ":", "/", "/", "c">>
News == <<"n", "e", "w", "s">>
NUL == "\\0"

Rec(id) ==
    CASE id = "a" -> [id |-> <<"1">>, type |-> News, url |-> UrlA,
                      summary |-> <<"a", "b", "c">>,
                      published_at |-> "datetime"]
      [] id = "b" -> [id |-> <<"2">>, type |-> News, url |-> UrlB,
                      summary |-> <<" ", "a", "b", "c", " ">>,
                      published_at |-> "datetime"]
      [] id = "c" -> [id |-> <<"3">>, type |-> News, url |-> UrlC,
                      summary |-> <<"a", "b", "c">>,
                      published_at |-> "str"]
      [] id = "s" -> [id |-> <<"4">>, type |-> News, url |-> UrlS,
                      summary |-> <<"a", "b", NUL, "c">>,
                      published_at |-> "datetime"]
      [] OTHER -> [id |-> <<"5">>, type |-> News, url |-> UrlFtp,
                   summary |-> <<" ", "a", "b", " ">>,
                   published_at |-> "datetime"]

Urls == {Rec(id).url : id \in RecordIds}

RECURSIVE SumOver(_, _)
SumOver(f, S) ==
    IF S = {} THEN 0
    ELSE LET x == CHOOSE y \in S : TRUE IN f[x] + SumOver(f, S \ {x})

\* SELECT ... FROM data_source WHERE url = u
RowsWithUrl(tbl, u) == SumOver(tbl, {id \in RecordIds : Rec(id).url = u})

RowCount(tbl) == SumOver(tbl, RecordIds)

RECURSIVE InsertRows(_, _)
InsertRows(tbl, ids) ==
    IF ids = <<>> THEN tbl
    ELSE InsertRows([tbl EXCEPT ![Head(ids)] = @ + 1], Tail(ids))

\* _get_existing_urls_bulk: SELECT url FROM data_source WHERE url = ANY($1)
GetExistingUrlsNone(tbl, ids) == {}
GetExistingUrlsBulk(tbl, ids) ==
    {u \in {Rec(ids[k]).url : k \in DOMAIN ids} : RowsWithUrl(tbl, u) > 0}

RECURSIVE Filter(_, _)
Filter(ids, keep) ==
    IF ids = <<>> THEN <<>>
    ELSE IF Head(ids) \in keep THEN <<Head(ids)>> \o Filter(Tail(ids), keep)
         ELSE Filter(Tail(ids), keep)

\* new_data_sources = [ds for ds in data_sources if ds.url not in existing]
NewDataSources(tbl, ids) ==
    Filter(ids, {id \in RecordIds : Rec(id).url \notin GetExistingUrlsBulk(tbl, ids)})

\* valid_data_sources of _bulk_insert_data_sources
ValidDataSourcesUnfiltered(ids) == ids
ValidDataSources(ids) == Filter(ids, {id \in RecordIds : IsValid(Rec(id))})

\* "published_at.tzinfo" and json.dumps run in Python before the statement
\* is sent: a published_at that is not a datetime raises there, and the
\* transaction stays usable
PreparationRaises(id) == Rec(id).published_at # "datetime"

\* the INSERT reaches the server and the server rejects the row (a text
\* value with a NUL character); an error of a statement inside a
\* transaction block aborts the transaction
ServerRejects(id) == Contains(Rec(id).summary, <<NUL>>)

NoAttempt ==
    [attempted |-> <<>>, inserted |-> <<>>, saved_count |-> 0,
     aborted |-> FALSE, firstFailure |-> 0, lastInserted |-> 0]

\* the loop of _fallback_individual_insert from position k on. In an aborted
\* transaction every statement raises; stop: the loop ends at a failure
RECURSIVE FallbackLoop(_, _, _, _)
FallbackLoop(ids, k, acc, stop) ==
    IF k > Len(ids) THEN acc
    ELSE LET id == ids[k]
             sent == ~PreparationRaises(id)
             raises == ~sent \/ acc.aborted \/ ServerRejects(id)
             next == [attempted |-> Append(acc.attempted, id),
                      inserted |-> IF raises THEN acc.inserted
                                   ELSE Append(acc.inserted, id),
                      saved_count |-> IF raises THEN acc.saved_count
                                      ELSE acc.saved_count + 1,
                      aborted |-> acc.aborted \/ (sent /\ ServerRejects(id)),
                      firstFailure |-> IF raises /\ acc.firstFailure = 0
                                       THEN k ELSE acc.firstFailure,
                      lastInserted |-> IF raises THEN acc.lastInserted ELSE k]
         IN  IF raises /\ stop THEN next
             ELSE FallbackLoop(ids, k + 1, next, stop)

\* _fallback_individual_insert; aborted: the failed bulk insert has left the
\* transaction aborted
FallbackStopAtFirstFailure(ids, aborted) ==
    FallbackLoop(ids, 1, [NoAttempt EXCEPT !.aborted = aborted], TRUE)
FallbackIndividualInsert(ids, aborted) ==
    FallbackLoop(ids, 1, [NoAttempt EXCEPT !.aborted = aborted], FALSE)

NoInsert ==
    [inserted |-> <<>>, ret |-> 0, bulkFailed |-> FALSE, valid |-> <<>>,
     attempted |-> <<>>, aborted |-> FALSE, firstFailure |-> 0,
     lastInserted |-> 0]

\* _bulk_insert_data_sources: validation, preparation of the rows,
\* executemany, and the individual inserts when either raises.
\* bulkAborts: executemany raises for a reason of the server or the
\* connection (timeout, cancellation)
BulkInsertDataSources(ids, bulkAborts) ==
    LET valid == ValidDataSources(ids)
        prepRaises == \E k \in DOMAIN valid : PreparationRaises(valid[k])
        execRaises == bulkAborts \/ \E k \in DOMAIN valid : ServerRejects(valid[k])
    IN  IF ids = <<>> \/ valid = <<>>
        THEN [NoInsert EXCEPT !.valid = valid]
        ELSE IF ~prepRaises /\ ~execRaises
        THEN [NoInsert EXCEPT !.inserted = valid, !.ret = Len(valid),
                              !.valid = valid]
        ELSE LET fb == FallbackIndividualInsert(valid, ~prepRaises)
             IN  [inserted |-> fb.inserted, ret |-> fb.saved_count,
                  bulkFailed |-> TRUE, valid |-> valid,
                  attempted |-> fb.attempted, aborted |-> fb.aborted,
                  firstFailure |-> fb.firstFailure,
                  lastInserted |-> fb.lastInserted]

\* the rows the COMMIT at the end of "async with conn.transaction()" makes
\* durable: COMMIT of an aborted transaction rolls it back without an error
Committed(out) == IF out.aborted THEN <<>> ELSE out.inserted

\* save_data_sources. txFails: the connection raises (acquire, BEGIN, the
\* SELECT or COMMIT); the transaction is rolled back and the exception is
\* re-raised to the caller
SaveDataSources(tbl, ids, txFails, bulkAborts) ==
    IF ids = <<>> THEN [table |-> tbl, raised |-> FALSE, out |-> NoInsert]
    ELSE IF txFails THEN [table |-> tbl, raised |-> TRUE, out |-> NoInsert]
    ELSE LET new == NewDataSources(tbl, ids)
             out == IF new = <<>> THEN NoInsert
                    ELSE BulkInsertDataSources(new, bulkAborts)
         IN  [table |-> InsertRows(tbl, Committed(out)), raised |-> FALSE,
              out |-> out]

InputLists == UNION {[1..n -> RecordIds] : n \in 0..MaxList}

\* what the connection does during one call
DbBehaviours ==
    {[txFails |-> TRUE, bulkAborts |-> FALSE],
     [txFails |-> FALSE, bulkAborts |-> FALSE],
     [txFails |-> FALSE, bulkAborts |-> TRUE]}

\* the caller's view of one call, and the rows it added to the table;
\* second: the call repeats the list of the call before it; prevClean: that
\* earlier call returned and persisted every valid new Record of the list;
\* issuedValid: every Record an INSERT was issued for passes is_valid
CallRecord(tbl, res, second, prevReturned, prevClean) ==
    [ret |-> res.out.ret, raised |-> res.raised,
     bulkFailed |-> res.out.bulkFailed, nValid |-> Len(res.out.valid),
     attemptedAll |-> res.out.attempted = res.out.valid,
     firstFailure |-> res.out.firstFailure,
     lastInserted |-> res.out.lastInserted,
     aborted |-> res.out.aborted,
     clean |-> ~res.raised /\ Committed(res.out) = res.out.valid,
     added |-> RowCount(res.table) - RowCount(tbl),
     second |-> second, prevReturned |-> prevReturned,
     prevClean |-> prevClean,
     issuedValid |-> \A k \in DOMAIN res.out.valid :
                        IsValid(Rec(res.out.valid[k]))]

NoCall ==
    [ret |-> 0, raised |-> FALSE, bulkFailed |-> FALSE, nValid |-> 0,
     attemptedAll |-> TRUE, firstFailure |-> 0, lastInserted |-> 0,
     aborted |-> FALSE, clean |-> FALSE, added |-> 0, second |-> FALSE,
     prevReturned |-> FALSE, prevClean |-> FALSE, issuedValid |-> TRUE]

InitStore ==
    /\ table = [id \in RecordIds |-> 0]
    /\ last = NoCall
    /\ input = <<>>

\* the caller's list is chosen once and passed on every call
InitStoreTwice ==
    /\ table = [id \in RecordIds |-> 0]
    /\ last = NoCall
    /\ input \in InputLists

\* the batch processor at rest, with the default configuration
BatchIdle ==
    /\ max_workers = 2
    /\ batch_size = 3
    /\ total_count = 0
    /\ pc = [e \in 1..MaxElems |-> "idle"]
    /\ driver_lock = 0
    /\ future = [e \in 1..MaxElems |-> NoResult]
    /\ results = <<>>
    /\ data_sources = <<>>
    /\ i = 0
    /\ mainpc = "loop"

\* one call of save_data_sources with a list of Records
Save ==
    /\ \E ids \in InputLists, db \in DbBehaviours :
         LET res == SaveDataSources(table, ids, db.txFails, db.bulkAborts)
         IN  /\ RowCount(table) + Len(ids) <= MaxRows
             /\ table' = res.table
             /\ last' = CallRecord(table, res, FALSE, FALSE, FALSE)
    /\ UNCHANGED <<input, batchVars, tabVars, laterVars>>

\* a call of save_data_sources with the same list as the call before it
SaveSame ==
    /\ \E db \in DbBehaviours :
         LET res == SaveDataSources(table, input, db.txFails, db.bulkAborts)
         IN  /\ table' = res.table
             /\ last' = CallRecord(table, res, last # NoCall,
                                   last # NoCall /\ ~last.raised, last.clean)
    /\ UNCHANGED <<input, batchVars, tabVars, laterVars>>

NextStore == Save

NextStoreTwice == SaveSame

\* ====================================================================
\* External-link resolver (scrapers/cryptopanic.py) and tab manager
\* (utils/scraping_utils.py)
\* ====================================================================

None == "None"

\* CryptoPanicScraper.BASE_URL
BASE_URL == <<"h", "t", "t", "p", "s", ":", "/", "/", "c", "r", "y", "p", "t", "o", "p", "a", "n", "i", "c", ".", "c", "o", "m">>

\* the URLs of this model, by name
UrlText(u) ==
    CASE u = "internal" -> <<"h", "t", "t", "p", "s", ":", "/", "/", "c", "r", "y", "p", "t", "o", "p", "a", "n", "i", "c", ".", "c", "o", "m", "/", "n", "e", "w", "s", "/", "1">>
      [] u = "ext" -> <<"h", "t", "t", "p", "s", ":", "/", "/", "c", "o", "i", "n", "d", "e", "s", "k", ".", "c", "o", "m", "/", "a">>
      [] u = "short" -> <<"h", "t", "t", "p", ":", "/", "/", "a", ".", "b">>
      [] u = "own" -> <<"h", "t", "t", "p", "s", ":", "/", "/", "c", "r", "y", "p", "t", "o", "p", "a", "n", "i", "c", ".", "c", "o", "m", "/", "r", "e", "d", "i", "r", "e", "c", "t", "/", "x">>
      [] u = "blank" -> <<"a", "b", "o", "u", "t", ":", "b", "l", "a", "n", "k">>
      [] OTHER -> <<>>

\* _is_valid_external_url
MinUrlLen == 10
IsValidExternalUrl(u) ==
    /\ u # None
    /\ UrlText(u) # <<>>
    /\ StartsWith(UrlText(u), <<"h", "t", "t", "p">>)
    /\ ~StartsWith(UrlText(u), BASE_URL)
    /\ ~Contains(UrlText(u), <<"/", "r", "e", "d", "i", "r", "e", "c", "t", "/">>)
    /\ ~StartsWith(UrlText(u), <<"j", "a", "v", "a", "s", "c", "r", "i", "p", "t", ":">>)
    /\ ~StartsWith(UrlText(u), <<"#">>)
    /\ Len(UrlText(u)) > MinUrlLen

\* Method 4 of _extract_url_from_attributes with every href accepted
IsHiddenLinkAnyHref(u) == u # None /\ UrlText(u) # <<>>
\* Method 4 of _extract_url_from_attributes: the permissive hidden-link test
IsHiddenLink(u) ==
    /\ u # None
    /\ UrlText(u) # <<>>
    /\ StartsWith(UrlText(u), <<"h", "t", "t", "p">>)
    /\ ~StartsWith(UrlText(u), BASE_URL)
    /\ ~Contains(UrlText(u), <<"/", "r", "e", "d", "i", "r", "e", "c", "t", "/">>)
    /\ ~Contains(UrlText(u), <<"j", "a", "v", "a", "s", "c", "r", "i", "p", "t", ":">>)
    /\ ~Contains(UrlText(u), <<"#">>)
    /\ ~Contains(UrlText(u), <<"c", "r", "y", "p", "t", "o", "p", "a", "n", "i", "c", ".", "c", "o", "m">>)

\* _extract_url_from_attributes: data attributes, anchors, click areas,
\* hidden links, in this order; raises (caught inside) yield None
ExtractUrlFromAttributes(el, raises) ==
    IF raises THEN None
    ELSE IF IsValidExternalUrl(el.data_url) THEN el.data_url
    ELSE IF IsValidExternalUrl(el.href) THEN el.href
    ELSE IF el.click_area /\ IsValidExternalUrl(el.href) THEN el.href
    ELSE IF IsHiddenLink(el.href) THEN el.href
    ELSE None

\* the four scans of _extract_url_from_attributes in the order of the code
ScanOrderHiddenFirst == <<"hidden_links", "data_attrs", "anchors", "click_areas">>
ScanOrder == <<"data_attrs", "anchors", "click_areas", "hidden_links">>

\* what one scan returns for the element: a URL or None
ScanYield(el, step) ==
    CASE step = "data_attrs" ->
            IF IsValidExternalUrl(el.data_url) THEN el.data_url ELSE None
      [] step = "anchors" ->
            IF IsValidExternalUrl(el.href) THEN el.href ELSE None
      [] step = "click_areas" ->
            IF el.click_area /\ IsValidExternalUrl(el.href) THEN el.href ELSE None
      [] step = "hidden_links" ->
            IF IsHiddenLink(el.href) THEN el.href ELSE None
      [] OTHER -> None

Tried(step, found) == [step |-> step, found |-> found]

\* the scans performed from the k-th on, each with what it found: a scan
\* that returns a URL is the last one
RECURSIVE ScanFrom(_, _)
ScanFrom(el, k) ==
    IF k > Len(ScanOrder) THEN <<>>
    ELSE LET found == ScanYield(el, ScanOrder[k])
         IN  IF found # None THEN <<Tried(ScanOrder[k], found)>>
             ELSE <<Tried(ScanOrder[k], None)>> \o ScanFrom(el, k + 1)

\* the scans one call of _extract_url_from_attributes performs; an
\* exception (caught inside) ends the scans with nothing found
ScanTrace(el, raises) ==
    IF raises THEN <<Tried(ScanOrder[1], None)>> ELSE ScanFrom(el, 1)

\* the elements handed to the resolver; every one has the internal URL
\* "internal" as its fallback_url
ElementsToResolve ==
    [press : BOOLEAN, data_url : {None, "ext", "own"},
     href : {None, "ext", "short", "own"}, click_area : BOOLEAN,
     icon : BOOLEAN]

Fallback == "internal"

\* what driver.current_url can be in the new tab
TabUrls == {"ext", "own", "blank"}

NoElem ==
    [press |-> FALSE, data_url |-> None, href |-> None, click_area |-> FALSE,
     icon |-> FALSE]

\* new_tabs = [tab for tab in current_tabs if tab != original_tab]
NewTabs(handles, orig) == SelectSeq(handles, LAMBDA t : t # orig)

RECURSIVE Without(_, _)
Without(handles, t) ==
    IF handles = <<>> THEN <<>>
    ELSE IF Head(handles) = t THEN Without(Tail(handles), t)
         ELSE <<Head(handles)>> \o Without(Tail(handles), t)

IsOpen(handles, t) == \E k \in DOMAIN handles : handles[k] = t

\* the except block of click_and_get_url: read the current handle and
\* switch back to original_tab if it differs, swallowing any exception.
\* readFails / switchFails: the driver command raises; failed: the block
\* ends with another tab than original_tab current
RestoreSkipped(cur, handles, orig, readFails, switchFails) ==
    [current |-> cur, failed |-> FALSE]
RestoreOnError(cur, handles, orig, readFails, switchFails) ==
    IF readFails \/ ~IsOpen(handles, cur)
    THEN [current |-> cur, failed |-> cur # orig]
    ELSE IF cur = orig THEN [current |-> cur, failed |-> FALSE]
    ELSE IF switchFails \/ ~IsOpen(handles, orig)
    THEN [current |-> cur, failed |-> TRUE]
    ELSE [current |-> orig, failed |-> FALSE]

\* WebDriverUtils.is_press_article: the element's class holds "sponsored" or
\* one of its descendants shows the text "Press"
IsPressArticleNever(el) == FALSE
IsPressArticle(el) == el.press

\* the end of _extract_external_url_safe: the URL of the tab if it is a
\* valid external URL, else fallback_url
AfterTabUnchecked(u, fallback) == u
AfterTab(u, fallback) == IF u # None /\ IsValidExternalUrl(u) THEN u ELSE fallback

InitTab ==
    /\ window_handles = <<0>>
    /\ current = 0
    /\ opened = 0
    /\ pending = 0
    /\ tpc = "idle"
    /\ elem = NoElem
    /\ original_tab = 0
    /\ original_tab_count = 0
    /\ url = None
    /\ final_url = None
    /\ clicks = 0
    /\ failedAt = "none"
    /\ restoreFailed = FALSE
    /\ steps = {}
    /\ tried = <<>>

\* _process_single_element calls _extract_external_url_safe(element, url)
CallResolver ==
    /\ tpc \in {"idle", "returned"}
    /\ \E el \in ElementsToResolve : elem' = el
    /\ tpc' = "r_scan"
    /\ url' = None
    /\ final_url' = None
    /\ clicks' = 0
    /\ failedAt' = "none"
    /\ restoreFailed' = FALSE
    /\ steps' = {}
    /\ tried' = <<>>
    /\ UNCHANGED <<window_handles, current, opened, pending, original_tab,
                   original_tab_count, batchVars, storeVars, laterVars>>

ResolverReturns(u) ==
    /\ tpc' = "returned"
    /\ final_url' = u

\* lines 512-549: press check, attribute and anchor scans, icon search;
\* then either a return or the call of click_and_get_url, whose first two
\* lines read the current handle and the handle count outside its try
Scan ==
    /\ tpc = "r_scan"
    /\ \E raises \in BOOLEAN, readFails \in BOOLEAN :
         LET direct == ExtractUrlFromAttributes(elem, raises)
             scans == ScanTrace(elem, raises)
         IN  IF IsPressArticle(elem) THEN
                 /\ ResolverReturns(Fallback)
                 /\ steps' = steps
                 /\ tried' = <<>>
                 /\ UNCHANGED <<clicks, original_tab, original_tab_count, failedAt>>
             ELSE IF direct # None THEN
                 /\ ResolverReturns(direct)
                 /\ steps' = steps \cup {"attributes"}
                 /\ tried' = scans
                 /\ UNCHANGED <<clicks, original_tab, original_tab_count, failedAt>>
             ELSE IF ~elem.icon THEN
                 /\ ResolverReturns(Fallback)
                 /\ steps' = steps \cup {"attributes", "icon"}
                 /\ tried' = scans
                 /\ UNCHANGED <<clicks, original_tab, original_tab_count, failedAt>>
             ELSE IF readFails \/ ~IsOpen(window_handles, current) THEN
                 \* click_and_get_url raises; the resolver's except returns
                 /\ ResolverReturns(Fallback)
                 /\ steps' = steps \cup {"attributes", "icon", "click"}
                 /\ tried' = Append(scans, Tried("click", None))
                 /\ clicks' = clicks + 1
                 /\ failedAt' = "t_entry"
                 /\ UNCHANGED <<original_tab, original_tab_count>>
             ELSE
                 /\ tpc' = "t_check"
                 /\ steps' = steps \cup {"attributes", "icon", "click"}
                 /\ tried' = Append(scans, Tried("click", None))
                 /\ clicks' = clicks + 1
                 /\ original_tab' = current
                 /\ original_tab_count' = Len(window_handles)
                 /\ UNCHANGED <<final_url, failedAt>>
    /\ UNCHANGED <<window_handles, current, opened, pending, elem, url,
                   restoreFailed, batchVars, storeVars, laterVars>>

\* click_and_get_url returns u
TabReturns(u) ==
    /\ tpc' = "t_ret"
    /\ url' = u

\* an exception inside the try of click_and_get_url: the except block
TabHandler(step) ==
    \E readFails \in BOOLEAN, switchFails \in BOOLEAN :
        LET r == RestoreOnError(current, window_handles, original_tab,
                                readFails, switchFails)
        IN  /\ current' = r.current
            /\ restoreFailed' = (restoreFailed \/ r.failed)
            /\ failedAt' = step
            /\ TabReturns(None)

\* lines 30-38: element.tag_name / element.is_displayed()
TabCheck ==
    /\ tpc = "t_check"
    /\ \E o \in {"ok", "hidden", "stale"} :
         IF o = "ok" THEN /\ tpc' = "t_click"
                          /\ UNCHANGED <<url, failedAt>>
         ELSE /\ TabReturns(None)
              /\ failedAt' = "t_check"
    /\ UNCHANGED <<window_handles, current, opened, pending, elem, tried,
                   original_tab, original_tab_count, final_url, clicks,
                   restoreFailed, steps, batchVars, storeVars, laterVars>>

\* lines 40-50: scroll (errors swallowed) and the JavaScript click; the
\* click may ask the browser for a new tab
TabClick ==
    /\ tpc = "t_click"
    /\ \/ /\ \E opens \in BOOLEAN :
               pending' = IF opens /\ opened + pending < MaxTabs
                          THEN pending + 1 ELSE pending
          /\ tpc' = "t_wait"
          /\ UNCHANGED <<current, url, failedAt, restoreFailed>>
       \/ /\ TabHandler("t_click")
          /\ UNCHANGED pending
    /\ UNCHANGED <<window_handles, opened, elem, tried, original_tab,
                   original_tab_count, final_url, clicks, steps, batchVars, storeVars, laterVars>>

\* the browser opens a requested tab (at any time, also after the wait
\* has timed out); the driver's current tab does not change
TabOpens ==
    /\ pending > 0
    /\ pending' = pending - 1
    /\ opened' = opened + 1
    /\ window_handles' = Append(window_handles, opened + 1)
    /\ UNCHANGED <<current, tpc, elem, tried, original_tab, original_tab_count, url,
                   final_url, clicks, failedAt, restoreFailed, steps, batchVars, storeVars, laterVars>>

\* lines 52-71: WebDriverWait for a new tab; on success pick the newest
\* other tab and switch to it
TabWait ==
    /\ tpc = "t_wait"
    /\ \/ \* TimeoutException: no new tab appeared in time
          /\ Len(window_handles) <= original_tab_count
          /\ TabReturns(None)
          /\ failedAt' = "t_wait"
          /\ UNCHANGED <<current, restoreFailed>>
       \/ /\ Len(window_handles) > original_tab_count
          /\ LET new_tabs == NewTabs(window_handles, original_tab)
             IN  IF new_tabs = <<>> THEN
                     /\ TabReturns(None)
                     /\ failedAt' = "t_wait"
                     /\ UNCHANGED <<current, restoreFailed>>
                 ELSE \E switchFails \in BOOLEAN :
                     IF switchFails THEN TabHandler("t_switch")
                     ELSE /\ current' = new_tabs[Len(new_tabs)]
                          /\ tpc' = "t_load"
                          /\ UNCHANGED <<url, failedAt, restoreFailed>>
    /\ UNCHANGED <<window_handles, opened, pending, elem, tried, original_tab,
                   original_tab_count, final_url, clicks, steps, batchVars, storeVars, laterVars>>

\* lines 73-87: wait for document.readyState (a timeout is ignored), then
\* read driver.current_url
TabRead ==
    /\ tpc = "t_load"
    /\ \E o \in {"complete", "timeout", "loadraises", "urlraises"} :
         IF o \in {"complete", "timeout"} THEN
             /\ \E u \in TabUrls : url' = u
             /\ tpc' = "t_close"
             /\ failedAt' = (IF o = "timeout" THEN "load_timeout" ELSE failedAt)
             /\ UNCHANGED <<current, restoreFailed>>
         ELSE TabHandler(IF o = "loadraises" THEN "t_load" ELSE "t_url")
    /\ UNCHANGED <<window_handles, opened, pending, elem, tried, original_tab,
                   original_tab_count, final_url, clicks, steps, batchVars, storeVars, laterVars>>

\* lines 89-96: close the new tab, switch back to original_tab, return url
TabClose ==
    /\ tpc = "t_close"
    /\ \E o \in {"ok", "closeraises", "backraises"} :
         IF o = "closeraises" THEN
             /\ TabHandler("t_close")
             /\ UNCHANGED window_handles
         ELSE IF o = "backraises" \/ ~IsOpen(Without(window_handles, current),
                                             original_tab) THEN
             \* close() succeeded and switch_to.window(original_tab) raised
             /\ window_handles' = Without(window_handles, current)
             /\ current' = current
             /\ restoreFailed' = TRUE
             /\ failedAt' = "t_back"
             /\ TabReturns(None)
         ELSE
             /\ window_handles' = Without(window_handles, current)
             /\ current' = original_tab
             /\ tpc' = "t_ret"
             /\ UNCHANGED <<url, failedAt, restoreFailed>>
    /\ UNCHANGED <<opened, pending, elem, tried, original_tab, original_tab_count,
                   final_url, clicks, steps, batchVars, storeVars, laterVars>>

\* lines 551-556: back in _extract_external_url_safe
AfterClick ==
    /\ tpc = "t_ret"
    /\ ResolverReturns(AfterTab(url, Fallback))
    /\ UNCHANGED <<window_handles, current, opened, pending, elem, tried,
                   original_tab, original_tab_count, url, clicks, failedAt,
                   restoreFailed, steps, batchVars, storeVars, laterVars>>

NextTab ==
    \/ CallResolver
    \/ Scan
    \/ TabCheck
    \/ TabClick
    \/ TabOpens
    \/ TabWait
    \/ TabRead
    \/ TabClose
    \/ AfterClick


\* ====================================================================
\* Incremental filter (scrapers/cryptopanic.py)
\* ====================================================================

\* a publish time is a number of minutes, 1..MaxTime, or NoTime for None
NoTime == -1
PublishTimes == {NoTime} \cup (1..MaxTime)

\* datetime.min, the sort key of an element without a publish time
DatetimeMin == 0

\* _extract_published_at: the time of the first time-bearing sub-element
\* that parses, None when there is none; it never raises
ExtractPublishedAt(els, k) == els[k]

\* line 113: published_at > last_published_at
NewerOrSame(published_at, w) == published_at >= w
Newer(published_at, w) == published_at > w

\* the loop of lines 95-130 from position k on
RECURSIVE FilterLoop(_, _, _)
FilterLoop(els, w, k) ==
    IF k > Len(els) THEN <<>>
    ELSE LET published_at == ExtractPublishedAt(els, k)
             rest == FilterLoop(els, w, k + 1)
         IN  IF published_at = NoTime THEN <<k>> \o rest
             ELSE IF Newer(published_at, w) THEN <<k>> \o rest
             ELSE rest

\* the key of lines 137-139
SortKey(els, k) ==
    IF ExtractPublishedAt(els, k) = NoTime THEN DatetimeMin
    ELSE ExtractPublishedAt(els, k)

\* list.sort(key=..., reverse=True): stable, equal keys keep their order
RECURSIVE InsertByKey(_, _, _)
InsertByKey(els, sorted, k) ==
    IF sorted = <<>> THEN <<k>>
    ELSE IF SortKey(els, Head(sorted)) >= SortKey(els, k)
         THEN <<Head(sorted)>> \o InsertByKey(els, Tail(sorted), k)
         ELSE <<k>> \o sorted

RECURSIVE SortFrom(_, _, _)
SortFrom(els, ks, sorted) ==
    IF ks = <<>> THEN sorted
    ELSE SortFrom(els, Tail(ks), InsertByKey(els, sorted, Head(ks)))

SortSkipped(els, ks) == ks
SortDescending(els, ks) == SortFrom(els, ks, <<>>)

\* _filter_elements_by_published_date
FilterElementsByPublishedDate(els, w) ==
    IF w = NoTime THEN [k \in 1..Len(els) |-> k]
    ELSE SortDescending(els, FilterLoop(els, w, 1))

ElementLists == UNION {[1..n -> PublishTimes] : n \in 0..MaxFilterLen}

InitFilter ==
    /\ all_elements \in ElementLists
    /\ last_published_at \in PublishTimes
    /\ filtered_elements = <<>>
    /\ fpc = "call"

FilterIdle ==
    /\ all_elements = <<>>
    /\ last_published_at = NoTime
    /\ filtered_elements = <<>>
    /\ fpc = "call"

\* get_filtered_elements_by_date calls the filter
FilterElements ==
    /\ fpc = "call"
    /\ filtered_elements' =
           FilterElementsByPublishedDate(all_elements, last_published_at)
    /\ fpc' = "done"
    /\ UNCHANGED <<all_elements, last_published_at, batchVars, storeVars,
                   tabVars, validVars, currencyVars, configVars, elemVars,
                   runVars>>

NextFilter == FilterElements

\* ====================================================================
\* Record validation (models/data_source.py)
\* ====================================================================

\* the field values of the Records put to is_valid
SampleUrls ==
    {<<>>, <<" ">>, UrlA, <<" ">> \o UrlA \o <<" ">>, UrlB, UrlFtp,
     <<"h", "t", "t", "p">>}

SampleSummaries ==
    {<<>>, <<" ", " ", " ">>, <<"a", "b">>, <<" ", "a", "b", " ">>,
     <<"a", "b", "c">>, <<" ", "a", "b", "c", " ">>}

SampleRecords ==
    [url : SampleUrls, summary : SampleSummaries, type : {<<>>, News},
     id : {<<>>, <<"1">>}]

InitValid ==
    /\ record \in SampleRecords
    /\ is_valid = FALSE
    /\ vpc = "call"

ValidIdle ==
    /\ record = [url |-> <<>>, summary |-> <<>>, type |-> <<>>, id |-> <<>>]
    /\ is_valid = FALSE
    /\ vpc = "call"

\* a call of record.is_valid()
CallIsValid ==
    /\ vpc = "call"
    /\ is_valid' = IsValid(record)
    /\ vpc' = "done"
    /\ UNCHANGED <<record, batchVars, storeVars, tabVars, filterVars,
                   currencyVars, configVars, elemVars, runVars>>

NextValid == CallIsValid

\* ====================================================================
\* Configuration (config.py) and the values the batch processor runs with
\* ====================================================================

\* the defaults of constants.py, as documented in config.py lines 7-8
DEFAULT_SCRAPING_MAX_WORKERS == 2
DEFAULT_SCRAPING_BATCH_SIZE == 3

\* the characters of the sample environment values
EnvChars == {"-", "0", "1", "2", "x"}

Digits == {"0", "1", "2"}

DigitValue(c) == IF c = "0" THEN 0 ELSE IF c = "1" THEN 1 ELSE 2

\* the value of a sequence of decimal digits
RECURSIVE Decimal(_)
Decimal(s) ==
    IF s = <<>> THEN 0
    ELSE 10 * Decimal(SubSeq(s, 1, Len(s) - 1)) + DigitValue(s[Len(s)])

AllDigits(s) == s # <<>> /\ \A k \in DOMAIN s : s[k] \in Digits

\* int(text): an optional sign and decimal digits; anything else raises
\* ValueError
IntOf(s) ==
    IF AllDigits(s) THEN [raised |-> FALSE, value |-> Decimal(s)]
    ELSE IF s # <<>> /\ Head(s) = "-" /\ AllDigits(Tail(s))
         THEN [raised |-> FALSE, value |-> 0 - Decimal(Tail(s))]
    ELSE [raised |-> TRUE, value |-> 0]

\* int(os.getenv(name, default)): the default is already an int
GetEnvInt(v, default) ==
    IF v.set THEN IntOf(v.text) ELSE [raised |-> FALSE, value |-> default]

EnvValues ==
    {[set |-> FALSE, text |-> <<>>]}
        \cup {[set |-> TRUE, text |-> t] :
                 t \in UNION {[1..n -> EnvChars] : n \in 0..MaxEnvLen}}

\* the bounds validate_configuration tests, lines 104 and 107
ValidMaxWorkers == 1..10
ValidBatchSize == 1..20

NoScraper == [constructed |-> FALSE, max_workers |-> 0, batch_size |-> 0]

NoPool == [max_workers |-> 0, batch_size |-> 0]

InitConfig ==
    /\ environ \in [workers : EnvValues, batch : EnvValues]
    /\ SCRAPING_MAX_WORKERS = DEFAULT_SCRAPING_MAX_WORKERS
    /\ SCRAPING_BATCH_SIZE = DEFAULT_SCRAPING_BATCH_SIZE
    /\ scraper = NoScraper
    /\ pool = NoPool
    /\ cpc = "import"

ConfigIdle ==
    /\ environ = [workers |-> [set |-> FALSE, text |-> <<>>],
                  batch |-> [set |-> FALSE, text |-> <<>>]]
    /\ SCRAPING_MAX_WORKERS = DEFAULT_SCRAPING_MAX_WORKERS
    /\ SCRAPING_BATCH_SIZE = DEFAULT_SCRAPING_BATCH_SIZE
    /\ scraper = NoScraper
    /\ pool = NoPool
    /\ cpc = "import"

\* Config.load_from_env(), run when config.py is imported (line 115); the
\* two int() calls of lines 59-60 run in this order and either may raise
LoadFromEnv ==
    /\ cpc = "import"
    /\ LET w == GetEnvInt(environ.workers, SCRAPING_MAX_WORKERS)
           b == GetEnvInt(environ.batch, SCRAPING_BATCH_SIZE)
       IN  /\ SCRAPING_MAX_WORKERS' =
                  IF w.raised THEN SCRAPING_MAX_WORKERS ELSE w.value
           /\ SCRAPING_BATCH_SIZE' =
                  IF w.raised \/ b.raised THEN SCRAPING_BATCH_SIZE
                  ELSE b.value
           /\ cpc' = IF w.raised \/ b.raised THEN "raised" ELSE "loaded"
    /\ UNCHANGED <<environ, scraper, pool, batchVars, storeVars, tabVars,
                   filterVars, validVars, currencyVars,
                   elemVars, runVars>>

\* CryptoPanicScraper.__init__, lines 43-44
ConstructScraper ==
    /\ cpc = "loaded"
    /\ scraper' = [constructed |-> TRUE,
                   max_workers |-> SCRAPING_MAX_WORKERS,
                   batch_size |-> SCRAPING_BATCH_SIZE]
    /\ cpc' = "constructed"
    /\ UNCHANGED <<environ, SCRAPING_MAX_WORKERS, SCRAPING_BATCH_SIZE, pool,
                   batchVars, storeVars, tabVars, filterVars, validVars, currencyVars,
                   elemVars, runVars>>

\* _process_article_elements on a non-empty list: range(0, n, batch_size)
\* raises for a step of 0 and is empty for a negative step; the first slice
\* is handed to ThreadPoolExecutor(max_workers), which raises for a count
\* below 1
ProcessArticleElements ==
    /\ cpc = "constructed"
    /\ IF scraper.batch_size = 0 THEN cpc' = "raised" /\ pool' = pool
       ELSE IF scraper.batch_size < 0 THEN cpc' = "skipped" /\ pool' = pool
       ELSE IF scraper.max_workers < 1 THEN cpc' = "raised" /\ pool' = pool
       ELSE /\ cpc' = "ran"
            /\ pool' = [max_workers |-> scraper.max_workers,
                        batch_size |-> scraper.batch_size]
    /\ UNCHANGED <<environ, SCRAPING_MAX_WORKERS, SCRAPING_BATCH_SIZE, scraper,
                   batchVars, storeVars, tabVars, filterVars, validVars, currencyVars,
                   elemVars, runVars>>

NextConfig ==
    \/ LoadFromEnv
    \/ ConstructScraper
    \/ ProcessArticleElements

\* ====================================================================
\* Processing of one element (scrapers/cryptopanic.py)
\* ====================================================================

\* datetime.now(UTC), in minutes
Now == 10000

\* the datetime attribute of a time-bearing sub-element: absent, the strict
\* "Thu Jul 24 2025 19:27:23 GMT+0000 (...)" pattern with fields that make a
\* date (t) or do not, a text only dateutil parses (t), or neither
DatetimeAttrs ==
    {[form |-> "absent", t |-> 0], [form |-> "strict", t |-> 9000],
     [form |-> "strict_bad_fields", t |-> 0], [form |-> "dateutil", t |-> 9500],
     [form |-> "junk", t |-> 0]}

\* _parse_cryptopanic_datetime: None when nothing parses or datetime()
\* raises
ParseCryptopanicDatetime(a) ==
    IF a.form = "strict" THEN a.t
    ELSE IF a.form = "dateutil" THEN a.t
    ELSE NoTime

\* the words of the lower-cased, stripped text of a sub-element
TimeTexts ==
    {<<>>, <<"just", "now">>, <<"ago">>, <<"5", "min", "ago">>, <<"2", "h">>,
     <<"1", "d", "ago">>, <<"2", "h", "5", "min">>, <<"0", "min">>}

\* int(match.group(1)); -1 when the word is not a number
NumberValue(w) ==
    CASE w = "0" -> 0 [] w = "1" -> 1 [] w = "2" -> 2 [] w = "5" -> 5
      [] OTHER -> -1

\* the words (?:min|minute)s?, (?:h|hour)s? and (?:d|day)s? match
MinuteWords == {"min", "mins", "minute", "minutes"}
HourWords == {"h", "hour", "hours"}
DayWords == {"d", "day", "days"}

\* re.search: the positions of a number followed by one of the unit words
Matches(text, units) ==
    {k \in 1..(Len(text) - 1) :
        NumberValue(text[k]) >= 0 /\ text[k + 1] \in units}

\* the number of the leftmost match
Group1(text, units) ==
    NumberValue(text[CHOOSE k \in Matches(text, units) :
                        \A j \in Matches(text, units) : k <= j])

\* _parse_relative_time: minutes, then hours, then days, then a bare "ago"
ParseRelativeTime(text, now) ==
    IF Matches(text, MinuteWords) # {} THEN now - Group1(text, MinuteWords)
    ELSE IF Matches(text, HourWords) # {}
         THEN now - 60 * Group1(text, HourWords)
    ELSE IF Matches(text, DayWords) # {}
         THEN now - 1440 * Group1(text, DayWords)
    ELSE IF \E k \in DOMAIN text : text[k] = "ago" THEN now - 60
    ELSE NoTime

\* what one sub-element yields: its attribute, else its text
ParseTimeElement(te, now) ==
    IF te.attr.form # "absent" /\ ParseCryptopanicDatetime(te.attr) # NoTime
    THEN ParseCryptopanicDatetime(te.attr)
    ELSE IF te.text # <<>> THEN ParseRelativeTime(te.text, now)
    ELSE NoTime

\* _extract_published_at: the first sub-element that yields a time, None
\* when none does
RECURSIVE FirstParsed(_, _, _)
FirstParsed(time_elements, now, otherwise) ==
    IF time_elements = <<>> THEN otherwise
    ELSE IF ParseTimeElement(Head(time_elements), now) # NoTime
         THEN ParseTimeElement(Head(time_elements), now)
    ELSE FirstParsed(Tail(time_elements), now, otherwise)

ExtractPublishedAtOrNow(time_elements, now) ==
    FirstParsed(time_elements, now, now)
ExtractPublishedAtFrom(time_elements, now) ==
    FirstParsed(time_elements, now, NoTime)

\* _extract_published_time of the older path: the datetime attribute of the
\* first sub-element read with strptime, the current time otherwise
ExtractPublishedTime(time_elements, now) ==
    IF time_elements = <<>> THEN now
    ELSE IF Head(time_elements).attr.form = "strict"
         THEN Head(time_elements).attr.t
    ELSE now

\* _extract_cryptopanic_url: the href, prefixed with BASE_URL unless it
\* starts with "http"; <<>> stands for None
ExtractCryptopanicUrl(href) ==
    IF href = <<>> THEN <<>>
    ELSE IF StartsWith(href, <<"h", "t", "t", "p">>) THEN href
    ELSE BASE_URL \o href

\* urljoin(BASE_URL, url) for a base without a path
UrlJoin(base, u) == IF Head(u) = "/" THEN base \o u ELSE base \o <<"/">> \o u

\* _normalize_url
NormalizeUrl(u) ==
    IF StartsWith(u, <<"h", "t", "t", "p">>) THEN u ELSE UrlJoin(BASE_URL, u)

\* _extract_external_url_safe, from what the resolver found (el.resolved)
ExtractExternalUrlSafe(el, fallback_url) ==
    IF IsPressArticle(el) THEN fallback_url
    ELSE IF el.resolved # None THEN UrlText(el.resolved)
    ELSE fallback_url

\* the raw_content of from_cryptopanic_news: None, "" and [] are left out
RawContent(currencies, source_domain, scraped_at) ==
    [k \in {"source", "scraped_at"}
            \cup (IF currencies # <<>> THEN {"currencies"} ELSE {})
            \cup (IF source_domain # <<>> THEN {"source_domain"} ELSE {}) |->
        CASE k = "source" -> <<"cryptopanic">>
          [] k = "scraped_at" -> <<scraped_at>>
          [] k = "currencies" -> currencies
          [] OTHER -> source_domain]

\* DataSource.from_cryptopanic_news
FromCryptopanicNews(title, u, published_at, currencies, source_domain, scraped_at) ==
    [id |-> <<"u">>, type |-> News, url |-> u, summary |-> title,
     published_at |-> published_at,
     raw_content |-> RawContent(currencies, source_domain, scraped_at)]

NoRecord ==
    [id |-> <<>>, type |-> <<>>, url |-> <<>>, summary |-> <<>>,
     published_at |-> NoTime, raw_content |-> <<>>]

\* the methods the class CryptoPanicScraper defines for extraction
Methods ==
    {"_extract_title_and_url", "_extract_title_from_element",
     "_extract_cryptopanic_url", "_extract_published_at",
     "_extract_external_url_safe", "_extract_original_url_robust",
     "_extract_url_from_attributes", "_extract_original_url_improved",
     "_extract_data_source", "_extract_title_text",
     "_extract_title_text_robust", "_extract_published_time",
     "_extract_currencies", "_extract_source_domain", "_normalize_url"}

\* _extract_data_source: a call of a method the class does not define raises
\* AttributeError, which the handler of lines 727-729 turns into None
ExtractDataSourceOf(el, now) ==
    IF "_extract_title_and_url_robust" \notin Methods THEN NoRecord
    ELSE LET cryptopanic_url == ExtractCryptopanicUrl(el.href)
             original_url ==
                 IF ~IsPressArticle(el) /\ el.resolved # None
                 THEN UrlText(el.resolved)
                 ELSE IF cryptopanic_url # <<>>
                      THEN NormalizeUrl(cryptopanic_url)
                 ELSE <<>>
             ds == FromCryptopanicNews(Strip(el.title), original_url,
                       ExtractPublishedTime(el.times, now), el.currencies,
                       el.source_domain, now)
         IN  IF el.title = <<>> \/ original_url = <<>> THEN NoRecord
             ELSE IF IsValid(ds) THEN ds
             ELSE NoRecord

\* line 274: len(title.strip()) < 3
MinTitleLen == 3

TitleText == <<"T", "i", "t", "l", "e">>

TimeElements == [attr : DatetimeAttrs, text : TimeTexts]

\* the elements of the page: elements that differ in liveness, title and
\* URLs, and elements that differ in their time-bearing sub-elements
ElementSamples ==
    [live : {"ok", "hidden", "stale"}, title : {<<>>, TitleText},
     href : {<<>>, <<"/", "n", "e", "w", "s", "/", "1">>, UrlText("internal"),
             <<"h", "t", "t", "p", "x", ":", "/", "n", "e", "w", "s", "/", "1">>},
     press : BOOLEAN, resolved : {None, "ext"}, times : {<<>>},
     currencies : {<<>>, <<"BTC">>},
     source_domain : {<<>>, <<"c", ".", "i", "o">>}]
      \cup
    [live : {"ok"}, title : {TitleText},
     href : {<<"/", "n", "e", "w", "s", "/", "1">>}, press : {FALSE},
     resolved : {None},
     times : UNION {[1..n -> TimeElements] : n \in 0..MaxSubElems},
     currencies : {<<>>}, source_domain : {<<>>}]

NoElement ==
    [live |-> "ok", title |-> <<>>, href |-> <<>>, press |-> FALSE,
     resolved |-> None, times |-> <<>>, currencies |-> <<>>,
     source_domain |-> <<>>]

PendingResult == [success |-> FALSE, data_source |-> NoRecord, error |-> "pending"]

Failed(reason) == [success |-> FALSE, data_source |-> NoRecord, error |-> reason]

InitElement ==
    /\ element = NoElement
    /\ data_source = NoRecord
    /\ result = PendingResult
    /\ extracted = NoRecord
    /\ epc = "idle"

\* the driver hands over an element of the page
FindElement ==
    /\ epc = "idle"
    /\ element' \in ElementSamples
    /\ epc' = "start"
    /\ UNCHANGED <<data_source, result, extracted, batchVars, storeVars,
                   tabVars, filterVars, validVars, currencyVars, configVars,
                   runVars>>

\* _process_single_element, the part inside "with self.driver_lock"
BuildDataSource ==
    /\ epc = "start"
    /\ LET title == element.title
           cryptopanic_url == ExtractCryptopanicUrl(element.href)
           final == ExtractExternalUrlSafe(element, cryptopanic_url)
           published_at == ExtractPublishedAtFrom(element.times, Now)
           fail(reason) == /\ result' = Failed(reason)
                           /\ data_source' = NoRecord
                           /\ epc' = "done"
       IN  IF element.live = "stale" THEN fail("Element stale")
           ELSE IF element.live = "hidden" THEN fail("Element not displayed")
           ELSE IF title = <<>> \/ cryptopanic_url = <<>>
                THEN fail("Title or URL not found")
           ELSE IF Len(Strip(title)) < MinTitleLen THEN fail("Invalid title")
           ELSE IF final = <<>>
                   \/ ~(StartsWith(final, HttpPrefix)
                         \/ StartsWith(final, HttpsPrefix))
                THEN fail("Invalid URL")
           ELSE /\ data_source' =
                       FromCryptopanicNews(Strip(title), Strip(final),
                                           published_at, <<>>, <<>>, Now)
                /\ result' = result
                /\ epc' = "built"
    /\ UNCHANGED <<element, extracted, batchVars, storeVars, tabVars,
                   filterVars, validVars, currencyVars, configVars,
                   runVars>>

\* _process_single_element, the validation outside the lock (line 302)
ValidateDataSource ==
    /\ epc = "built"
    /\ result' = IF IsValid(data_source)
                 THEN [success |-> TRUE, data_source |-> data_source,
                       error |-> "none"]
                 ELSE Failed("Invalid data source")
    /\ epc' = "done"
    /\ UNCHANGED <<element, data_source, extracted, batchVars, storeVars,
                   tabVars, filterVars, validVars, currencyVars, configVars,
                   runVars>>

\* a call of _extract_data_source on the element
ExtractDataSource ==
    /\ epc = "start"
    /\ extracted' = ExtractDataSourceOf(element, Now)
    /\ epc' = "extracted"
    /\ UNCHANGED <<element, data_source, result, batchVars, storeVars,
                   tabVars, filterVars, validVars, currencyVars, configVars,
                   runVars>>

NextElement ==
    \/ FindElement
    \/ BuildDataSource
    \/ ValidateDataSource
    \/ ExtractDataSource

\* ====================================================================
\* One run of the application (main.py)
\* ====================================================================

\* an element of the page: the Record it yields and its publish time
PageElements == [rec : {"a", "b"}, published_at : PublishTimes]

Pages == UNION {[1..n -> PageElements] : n \in 0..MaxPage}

\* connects: asyncpg.create_pool succeeds; watermark: MAX(published_at) of
\* the table; txFails, bulkAborts: as for save_data_sources; closeFails:
\* pool.close() raises
Databases ==
    [connects : BOOLEAN, watermark : PublishTimes, txFails : BOOLEAN,
     bulkAborts : BOOLEAN, closeFails : BOOLEAN]

\* the publish times of the elements of a page
TimesOf(p) == [k \in DOMAIN p |-> p[k].published_at]

\* the Records of a list of elements
RecordsOf(ds) == [k \in DOMAIN ds |-> ds[k].rec]

\* filter_new_articles without the comparison
FilterNewArticlesKeepAll(ds, last_published) == ds
\* filter_new_articles
RECURSIVE FilterNewArticles(_, _)
FilterNewArticles(ds, last_published) ==
    IF last_published = NoTime THEN ds
    ELSE IF ds = <<>> THEN <<>>
    ELSE IF Head(ds).published_at = NoTime
            \/ Head(ds).published_at > last_published
         THEN <<Head(ds)>> \o FilterNewArticles(Tail(ds), last_published)
    ELSE FilterNewArticles(Tail(ds), last_published)

\* the table holds the Record "b" when it has a newest publish time
InitRun ==
    /\ database \in Databases
    /\ page \in Pages
    /\ table = [id \in RecordIds |->
                   IF id = "b" /\ database.watermark # NoTime THEN 1 ELSE 0]
    /\ last = NoCall
    /\ input = <<>>
    /\ storage = "unset"
    /\ watermark = NoTime
    /\ processed = <<>>
    /\ all_data_sources = <<>>
    /\ new_data_sources = <<>>
    /\ saved_successfully = FALSE
    /\ fallback_json = <<>>
    /\ fallback_written = FALSE
    /\ rpc = "setup"

RunIdle ==
    /\ database = [connects |-> FALSE, watermark |-> NoTime, txFails |-> FALSE,
                   bulkAborts |-> FALSE, closeFails |-> FALSE]
    /\ page = <<>>
    /\ storage = "unset"
    /\ watermark = NoTime
    /\ processed = <<>>
    /\ all_data_sources = <<>>
    /\ new_data_sources = <<>>
    /\ saved_successfully = FALSE
    /\ fallback_json = <<>>
    /\ fallback_written = FALSE
    /\ rpc = "setup"

\* setup_storage: None when the connection fails
SetupStorage ==
    /\ rpc = "setup"
    /\ storage' = IF database.connects THEN "connected" ELSE "none"
    /\ rpc' = IF database.connects THEN "check" ELSE "scrape"
    /\ UNCHANGED <<database, page, watermark, processed, all_data_sources,
                   new_data_sources, saved_successfully, fallback_json,
                   fallback_written, batchVars, storeVars, tabVars,
                   filterVars, validVars, currencyVars, configVars, elemVars>>

\* check_for_updates: the newest publish time, None when the query raises
CheckForUpdates ==
    /\ rpc = "check"
    /\ \E raises \in BOOLEAN :
          watermark' = IF raises THEN NoTime ELSE database.watermark
    /\ rpc' = "scrape"
    /\ UNCHANGED <<database, page, storage, processed, all_data_sources,
                   new_data_sources, saved_successfully, fallback_json,
                   fallback_written, batchVars, storeVars, tabVars,
                   filterVars, validVars, currencyVars, configVars, elemVars>>

\* step 2: create_webdriver_from_env() raises when the browser session
\* cannot be created, and scraper.run_scraping() re-raises what navigation
\* or scraping raised; either exception leaves run_scraping. Otherwise
\* scrape_articles asks for the elements with
\* get_filtered_elements_by_date(None) and hands them to the batch
\* processor; every element yields a valid Record here
RunScraper ==
    /\ rpc = "scrape"
    /\ \E o \in {"ok", "no_session", "raises"} :
         IF o = "ok" THEN
             LET filtered == FilterElementsByPublishedDate(TimesOf(page), NoTime)
             IN  /\ processed' = filtered
                 /\ all_data_sources' =
                        [k \in DOMAIN filtered |-> page[filtered[k]]]
                 /\ rpc' = "filter"
         ELSE /\ rpc' = "scrape_failed"
              /\ UNCHANGED <<processed, all_data_sources>>
    /\ UNCHANGED <<database, page, storage, watermark, new_data_sources,
                   saved_successfully, fallback_json, fallback_written,
                   batchVars, storeVars, tabVars, filterVars, validVars, currencyVars,
                   configVars, elemVars>>

\* steps 3 and 4 of run_scraping: filter_new_articles and the early return
FilterNew ==
    /\ rpc = "filter"
    /\ new_data_sources' = FilterNewArticles(all_data_sources, watermark)
    /\ rpc' = IF new_data_sources' = <<>>
              THEN IF storage = "connected" THEN "close_early" ELSE "done"
              ELSE IF storage = "connected" THEN "save" ELSE "fallback"
    /\ UNCHANGED <<database, page, storage, watermark, processed,
                   all_data_sources, saved_successfully, fallback_json,
                   fallback_written, batchVars, storeVars, tabVars,
                   filterVars, validVars, currencyVars, configVars, elemVars>>

\* step 5: storage.save_data_sources(new_data_sources) inside try/except
SaveNew ==
    /\ rpc = "save"
    /\ LET res == SaveDataSources(table, RecordsOf(new_data_sources),
                                  database.txFails, database.bulkAborts)
       IN  /\ table' = res.table
           /\ saved_successfully' = ~res.raised
    /\ input' = RecordsOf(new_data_sources)
    /\ rpc' = "close"
    /\ UNCHANGED <<database, page, storage, watermark, processed,
                   all_data_sources, new_data_sources, fallback_json,
                   fallback_written, last, batchVars, tabVars,
                   filterVars, validVars, currencyVars, configVars, elemVars>>

\* storage.close(), in the finally block of step 5 or before the early
\* return; an exception of pool.close() leaves run_scraping
CloseStorage ==
    /\ rpc \in {"close", "close_early"}
    /\ IF database.closeFails
       THEN storage' = storage /\ rpc' = "failed"
       ELSE /\ storage' = "closed"
            /\ rpc' = IF rpc = "close_early" \/ saved_successfully
                      THEN "done" ELSE "fallback"
    /\ UNCHANGED <<database, page, watermark, processed, all_data_sources,
                   new_data_sources, saved_successfully, fallback_json,
                   fallback_written, batchVars, storeVars, tabVars,
                   filterVars, validVars, currencyVars, configVars, elemVars>>

\* step 6: save_to_fallback_json(new_data_sources)
SaveToFallbackJson ==
    /\ rpc = "fallback"
    /\ fallback_json' = new_data_sources
    /\ fallback_written' = TRUE
    /\ rpc' = "done"
    /\ UNCHANGED <<database, page, storage, watermark, processed,
                   all_data_sources, new_data_sources, saved_successfully,
                   batchVars, storeVars, tabVars, filterVars, validVars, currencyVars,
                   configVars, elemVars>>

NextRun ==
    \/ SetupStorage
    \/ CheckForUpdates
    \/ RunScraper
    \/ FilterNew
    \/ SaveNew
    \/ CloseStorage
    \/ SaveToFallbackJson

\* The scraper and the store share no state, so a behaviour exercises one
\* of the two: save_data_sources is called with lists of Records, or an
\* element of the page is processed
SaveRecords == epc = "idle" /\ Save

FindElementToProcess == last = NoCall /\ FindElement

NextValidated ==
    \/ FindElementToProcess
    \/ BuildDataSource
    \/ ValidateDataSource
    \/ SaveRecords

\* ====================================================================
\* Currency extraction (scrapers/cryptopanic.py)
\* ====================================================================

\* what a currency link shows: its text as the driver returns it, or an
\* exception when the driver reads it
LinkTexts == {<<>>, <<"B">>, <<"E">>, <<" ", "B">>}

CurrencyLinks == [text : LinkTexts, raises : BOOLEAN]

\* ElementSearcher.safe_get_text: element.text.strip(), "" on an exception
SafeGetText(link) == IF link.raises THEN <<>> ELSE Strip(link.text)

\* texts[1..k] without the texts that occurred before
RECURSIVE FirstOccurrences(_)
FirstOccurrences(texts) ==
    IF texts = <<>> THEN <<>>
    ELSE LET front == SubSeq(texts, 1, Len(texts) - 1)
             t == texts[Len(texts)]
         IN  IF \E k \in DOMAIN front : front[k] = t
             THEN FirstOccurrences(front)
             ELSE Append(FirstOccurrences(front), t)

\* [safe_get_text(link) for link in currency_links if safe_get_text(link)]
ExtractCurrencies(links) ==
    SelectSeq([k \in DOMAIN links |-> SafeGetText(links[k])],
              LAMBDA t : t # <<>>)

InitCurrency ==
    /\ currency_links \in UNION {[1..n -> CurrencyLinks] : n \in 0..MaxLinks}
    /\ extracted_currencies = <<>>
    /\ kpc = "call"

CurrencyIdle ==
    /\ currency_links = <<>>
    /\ extracted_currencies = <<>>
    /\ kpc = "call"

\* a call of _extract_currencies(element)
CallExtractCurrencies ==
    /\ kpc = "call"
    /\ extracted_currencies' = ExtractCurrencies(currency_links)
    /\ kpc' = "done"
    /\ UNCHANGED <<currency_links, batchVars, storeVars, tabVars, filterVars,
                   validVars, configVars, elemVars, runVars>>

NextCurrency == CallExtractCurrencies

\* the machines added after the first three, at rest
LaterIdle ==
    /\ FilterIdle /\ ValidIdle /\ ConfigIdle /\ InitElement /\ RunIdle
    /\ CurrencyIdle

\* ====================================================================
\* Specifications
\* ====================================================================
InitSpecBatch == InitBatch /\ InitStore /\ InitTab /\ LaterIdle

SpecBatch == InitSpecBatch /\ [][NextBatch]_vars

\* the batch processor with its threads scheduled fairly: the main thread
\* and every pool thread that can take a step eventually takes one (each
\* driver call returns or times out)
MainThread == StartBatch \/ EndBatch \/ Return

Worker(e) ==
    \/ Begin(e)
    \/ Acquire(e)
    \/ Liveness(e)
    \/ Extract(e)
    \/ Resolve(e)
    \/ Tab(e)
    \/ Publish(e)
    \/ Validate(e)

NextBatchLive == MainThread \/ \E e \in 1..MaxElems : Worker(e)

SpecBatchLive ==
    /\ InitSpecBatch
    /\ [][NextBatchLive]_vars
    /\ WF_vars(MainThread)
    /\ \A e \in 1..MaxElems : WF_vars(Worker(e))

InitSpecStore == InitStore /\ BatchIdle /\ InitTab /\ LaterIdle

SpecStore == InitSpecStore /\ [][NextStore]_vars

InitSpecStoreTwice == InitStoreTwice /\ BatchIdle /\ InitTab /\ LaterIdle

SpecStoreTwice == InitSpecStoreTwice /\ [][NextStoreTwice]_vars

InitSpecTab == InitTab /\ BatchIdle /\ InitStore /\ LaterIdle

SpecTab == InitSpecTab /\ [][NextTab]_vars

InitSpecFilter ==
    /\ InitFilter /\ BatchIdle /\ InitStore /\ InitTab
    /\ ValidIdle /\ ConfigIdle /\ InitElement /\ RunIdle
    /\ CurrencyIdle

SpecFilter == InitSpecFilter /\ [][NextFilter]_vars

InitSpecValid ==
    /\ InitValid /\ BatchIdle /\ InitStore /\ InitTab
    /\ FilterIdle /\ ConfigIdle /\ InitElement /\ RunIdle
    /\ CurrencyIdle

SpecValid == InitSpecValid /\ [][NextValid]_vars

InitSpecConfig ==
    /\ InitConfig /\ BatchIdle /\ InitStore /\ InitTab
    /\ FilterIdle /\ ValidIdle /\ InitElement /\ RunIdle
    /\ CurrencyIdle

SpecConfig == InitSpecConfig /\ [][NextConfig]_vars

InitSpecElement == BatchIdle /\ InitStore /\ InitTab /\ LaterIdle

SpecElement == InitSpecElement /\ [][NextElement]_vars

InitSpecValidated == BatchIdle /\ InitStore /\ InitTab /\ LaterIdle

SpecValidated == InitSpecValidated /\ [][NextValidated]_vars

InitSpecCurrency ==
    /\ InitCurrency /\ BatchIdle /\ InitStore /\ InitTab
    /\ FilterIdle /\ ValidIdle /\ ConfigIdle /\ InitElement /\ RunIdle

SpecCurrency == InitSpecCurrency /\ [][NextCurrency]_vars

InitSpecRun ==
    /\ InitRun /\ BatchIdle /\ InitTab
    /\ FilterIdle /\ ValidIdle /\ ConfigIdle /\ InitElement
    /\ CurrencyIdle

SpecRun == InitSpecRun /\ [][NextRun]_vars

\* ====================================================================
\* Claims about the concurrent batch processor (under SpecBatch)
\* ====================================================================

\* C1: every step of _process_single_element that touches the shared
\* browser session (liveness check, title/URL extraction, external-link
\* resolution with its tab sequence, publish-time extraction) runs while
\* its worker holds driver_lock, so at most one worker is in such a step.
DriverAccessSerialized ==
    /\ \A e \in 1..MaxElems : pc[e] \in DriverSteps => driver_lock = e
    /\ \A e, f \in 1..MaxElems :
         (pc[e] \in DriverSteps /\ pc[f] \in DriverSteps) => e = f

\* C1 witness: one worker is inside the tab sequence while another worker
\* of the same batch is running and waits for the lock.
WitnessLockContended ==
    \E e, f \in 1..MaxElems :
        /\ e # f
        /\ pc[e] = "tab"
        /\ pc[f] = "waitlock"

\* C2 (as claimed): the returned Records are in the relative order of their
\* originating elements in the input list.
OutputInInputOrder ==
    \A p, q \in DOMAIN data_sources :
        p < q => data_sources[p] < data_sources[q]

\* C2 (amended): Records of different batches keep the input order (every
\* Record of an earlier batch precedes every Record of a later batch) and
\* no element contributes two Records; inside a batch the order is the
\* completion order of the workers.
OutputInBatchOrder ==
    \A p, q \in DOMAIN data_sources :
        p < q => /\ BatchOf(data_sources[p]) <= BatchOf(data_sources[q])
                 /\ data_sources[p] # data_sources[q]

\* C2 witness: a finished run whose first batch completed out of input
\* order and whose second batch follows it.
WitnessOutOfOrderBatch ==
    /\ mainpc = "returned"
    /\ batch_size = 2
    /\ data_sources = <<2, 1, 3>>

\* C3: no element of a later batch is submitted or processed before every
\* element of each earlier batch has produced its outcome.
BatchesSequential ==
    \A e, f \in Elements :
        (BatchOf(e) < BatchOf(f) /\ pc[f] # "idle") =>
            (pc[e] = "done" /\ future[e].idx = e)

\* C3 witness: an element of the second batch is being processed.
WitnessSecondBatchRunning ==
    \E f \in Elements : BatchOf(f) >= 1 /\ pc[f] \in DriverSteps

\* C4: when a batch is complete its results hold exactly one outcome per
\* element of the batch (a success or a failure with a reason), an
\* exception included, and a run that returned has processed every
\* element of every batch.
OneOutcomePerElement ==
    /\ (mainpc = "batch" /\ BatchComplete) =>
          /\ Len(results) = Cardinality(BatchElements)
          /\ \A e \in BatchElements :
                /\ future[e].idx = e
                /\ Cardinality({k \in DOMAIN results : results[k].idx = e}) = 1
                /\ \E k \in DOMAIN results : results[k] = future[e]
    /\ mainpc = "returned" =>
          \A e \in Elements : pc[e] = "done" /\ future[e].idx = e
    /\ \A e \in Elements :
          future[e].error \in {"Element stale", "DataSource creation failed",
                               "exception"} => ~future[e].success

\* C4 witness: element 1 raised, and the rest of its batch and the next
\* batch were still processed to a Record.
WitnessExceptionIsolated ==
    /\ mainpc = "returned"
    /\ total_count = 3
    /\ future[1].error = "exception"
    /\ future[2].success
    /\ future[3].success
    /\ data_sources = <<2, 3>>

\* C21: is_valid() of the constructed Record runs after driver_lock was
\* released: a worker that validates does not hold the lock, and the lock
\* is then free or held by another worker.
ValidationOutsideLock ==
    \A e \in 1..MaxElems : pc[e] = "validate" => driver_lock # e

\* C21 witness: one worker validates its Record while another worker is in
\* a step that uses the browser session.
WitnessValidationOverlapsDriver ==
    \E e, f \in 1..MaxElems :
        /\ e # f
        /\ pc[e] = "validate"
        /\ pc[f] \in DriverSteps
        /\ driver_lock = f

\* C22: within one run every element is submitted exactly once: a task is
\* queued only for an element that was never submitted, an element that
\* has its outcome keeps it and is not processed again, a failed element
\* has no Record in the output, and a run that returned has submitted
\* every element.
ElementsSubmittedOnce ==
    [][/\ \A e \in 1..MaxElems :
            (pc'[e] = "queued" /\ pc[e] # "queued") => pc[e] = "idle"
       /\ \A e \in 1..MaxElems :
            pc[e] = "done" => (pc'[e] = "done" /\ future'[e] = future[e])
       /\ \A e \in 1..MaxElems :
            (pc'[e] = "done" /\ ~future'[e].success) =>
                \A k \in DOMAIN data_sources' : data_sources'[k] # e
       /\ mainpc' = "returned" =>
            \A e \in 1..total_count : pc'[e] = "done"]_vars

\* C22 witness: a finished run of three batches whose first element
\* failed; the output holds the Records of the other two only.
WitnessFailedElementNotRetried ==
    /\ mainpc = "returned"
    /\ batch_size = 1
    /\ total_count = 3
    /\ future[1].error = "Title or URL not found"
    /\ data_sources = <<2, 3>>

\* C26: driver_lock is released on every exit path of
\* _process_single_element (a worker that is not inside the locked section
\* does not hold it), and under fair scheduling the run of any finite
\* element list eventually returns with every element processed and the
\* lock free (checked under SpecBatchLive).
LockReleasedAndRunCompletes ==
    /\ [](\A e \in 1..MaxElems :
            pc[e] \notin DriverSteps => driver_lock # e)
    /\ <>[](/\ mainpc = "returned"
            /\ driver_lock = 0
            /\ \A e \in 1..total_count : pc[e] = "done")

\* C26 witness: a finished run with two workers in which one element left
\* the locked section by an early failure return, one by an exception
\* inside it, and one by the success path.
WitnessEveryExitPathTaken ==
    /\ mainpc = "returned"
    /\ max_workers = 2
    /\ total_count = 3
    /\ future[1].error = "Element not displayed"
    /\ future[2].error = "Element stale"
    /\ future[3].success
    /\ driver_lock = 0

\* ====================================================================
\* Claims about the deduplicating bulk store
\* ====================================================================

\* C5: after any sequence of save_data_sources calls the table holds at
\* most one row per distinct URL (checked under SpecStore).
AtMostOneRowPerUrl ==
    \A u \in Urls : RowsWithUrl(table, u) <= 1

BulkFailureFallsBackToEveryRecord ==
    last.bulkFailed =>
        /\ ~last.raised
        /\ last.nValid > 0
        /\ last.attemptedAll

\* C7 witness: the bulk insert failed, the individual insert of the first
\* Record failed, and the second Record was still inserted.
WitnessFallbackPastFailure ==
    /\ last.bulkFailed
    /\ last.attemptedAll
    /\ last.firstFailure = 1
    /\ last.lastInserted = 2
    /\ last.added = 1
    /\ table["b"] = 1

NoScanHit(el) ==
    /\ ~IsValidExternalUrl(el.data_url)
    /\ ~IsValidExternalUrl(el.href)
    /\ ~IsHiddenLink(el.href)

\* C10: for a non-press element the resolver returns a URL, never absence;
\* it returns the internal URL when the scans find nothing and there is no
\* icon, and whenever the interactive step failed (stale or hidden icon,
\* click error, new-tab timeout, any exception); and it calls
\* click_and_get_url at most once.
ResolverAlwaysReturnsUrl ==
    (tpc = "returned" /\ ~elem.press) =>
        /\ final_url # None
        /\ UrlText(final_url) # <<>>
        /\ clicks <= 1
        /\ (NoScanHit(elem) /\ clicks = 0) => final_url = Fallback
        /\ failedAt \notin {"none", "load_timeout"} => final_url = Fallback

\* C10 witness: the wait for the new tab timed out and the resolver
\* returned the internal URL after its single click.
WitnessTimeoutFallsBack ==
    /\ tpc = "returned"
    /\ ~elem.press
    /\ failedAt = "t_wait"
    /\ clicks = 1
    /\ final_url = Fallback

\* C11: for an element classified as press the resolver performs no
\* resolution step (no attribute or anchor scan, no icon search, no click,
\* no new tab) and returns the element's internal URL, which becomes the
\* URL of the Record.
PressSkipsResolution ==
    (tpc = "returned" /\ elem.press) =>
        /\ final_url = Fallback
        /\ steps = {}
        /\ clicks = 0
        /\ failedAt = "none"

\* C11 witness: a press element that carries an external data attribute,
\* an external anchor and a link icon was resolved to its internal URL.
WitnessPressWithExternalLink ==
    /\ tpc = "returned"
    /\ elem.press
    /\ elem.data_url = "ext"
    /\ elem.href = "ext"
    /\ elem.icon
    /\ final_url = Fallback

\* the resolver steps in the order the claim gives them
ClaimedOrder == <<"data_attrs", "anchors", "click_areas", "hidden_links", "click">>

PositionOf(step) == CHOOSE k \in DOMAIN ClaimedOrder : ClaimedOrder[k] = step

\* C23: for a non-press element the resolver steps are tried in the order
\* attribute scan, anchor scan, click-area scan, hidden-link scan, click:
\* the first step tried is the attribute scan, each further step is the
\* next one of the order (or the click, after a scan that raised), a step
\* that yields a URL is the last one and its URL is returned, and the
\* click is performed only after scans that found nothing (all four of
\* them when none raised).
ResolverStepsInClaimedOrder ==
    (tpc \notin {"idle", "r_scan"} /\ ~elem.press) =>
        /\ tried # <<>>
        /\ tried[1].step = ClaimedOrder[1]
        /\ \A k \in DOMAIN tried :
              /\ tried[k].step \in {ClaimedOrder[j] : j \in DOMAIN ClaimedOrder}
              /\ tried[k].found # None =>
                    /\ k = Len(tried)
                    /\ tried[k].found = ScanYield(elem, tried[k].step)
                    /\ tpc = "returned" /\ final_url = tried[k].found
              /\ k < Len(tried) =>
                    /\ tried[k].found = None
                    /\ \/ PositionOf(tried[k + 1].step) = PositionOf(tried[k].step) + 1
                       \/ tried[k + 1].step = "click"
        /\ (clicks > 0) = (tried[Len(tried)].step = "click")
        /\ Len(tried) = Len(ClaimedOrder) =>
              \A j \in 1..4 : ScanYield(elem, ClaimedOrder[j]) = None
        /\ (tpc = "returned" /\ clicks = 0 /\ tried[Len(tried)].found = None) =>
              final_url = Fallback

\* C23 witness: the four scans found nothing on an element whose anchor
\* points to the site itself, the click was performed and the URL of the
\* new tab was returned.
WitnessClickAfterFourScans ==
    /\ tpc = "returned"
    /\ elem.href = "own"
    /\ Len(tried) = 5
    /\ tried[5].step = "click"
    /\ final_url = "ext"

\* C25 (as claimed): after click_and_get_url has returned, the open tabs
\* are those that were open before the call. The tabs a click opens are
\* new handles and the call closes no tab that was open before, so the
\* sets are equal exactly when the number of handles is unchanged.
OpenTabsUnchangedByCall ==
    (tpc \in {"t_ret", "returned"} /\ clicks > 0 /\ failedAt # "t_entry") =>
        Len(window_handles) = original_tab_count

\* the permissive test of the hidden-link scan as the amended claim states
\* it: begins with "http", does not begin with BASE_URL, and holds none of
\* "/redirect/", "javascript:", "#", "cryptopanic.com"
PassesPermissiveTest(u) ==
    LET text == UrlText(u)
    IN  /\ Len(text) >= 4
        /\ SubSeq(text, 1, 4) = <<"h", "t", "t", "p">>
        /\ ~StartsWith(text, BASE_URL)
        /\ ~Contains(text, <<"/", "r", "e", "d", "i", "r", "e", "c", "t", "/">>)
        /\ ~Contains(text, <<"j", "a", "v", "a", "s", "c", "r", "i", "p", "t", ":">>)
        /\ ~Contains(text, <<"#">>)
        /\ ~Contains(text, <<"c", "r", "y", "p", "t", "o", "p", "a", "n", "i", "c", ".", "c", "o", "m">>)

\* C29 (as claimed): for a non-press element the returned URL is the
\* fallback URL or satisfies _is_valid_external_url.
ResolvedUrlIsFallbackOrValid ==
    (tpc = "returned" /\ ~elem.press) =>
        \/ final_url = Fallback
        \/ IsValidExternalUrl(final_url)

\* C29 (amended): for a non-press element the returned URL is the fallback
\* URL, or satisfies _is_valid_external_url, or was produced by the
\* hidden-link scan and passes its permissive test, which has no minimum
\* length.
ResolvedUrlIsFallbackValidOrPermitted ==
    (tpc = "returned" /\ ~elem.press) =>
        \/ final_url = Fallback
        \/ IsValidExternalUrl(final_url)
        \/ /\ tried # <<>>
           /\ tried[Len(tried)].step = "hidden_links"
           /\ final_url = elem.href
           /\ PassesPermissiveTest(final_url)

\* C29 witness: the hidden-link scan returned an anchor's URL of ten
\* characters, which _is_valid_external_url rejects.
WitnessShortHiddenLink ==
    /\ tpc = "returned"
    /\ ~elem.press
    /\ final_url = "short"
    /\ Len(UrlText(final_url)) = MinUrlLen
    /\ ~IsValidExternalUrl(final_url)
    /\ tried[Len(tried)] = Tried("hidden_links", "short")

\* ====================================================================
\* Claims about the incremental filter (under SpecFilter)
\* ====================================================================

\* the positions the filter returned
Returned == {filtered_elements[j] : j \in DOMAIN filtered_elements}

\* C12: the filter returns exactly the elements for which the watermark is
\* absent, or the publish time is absent, or the publish time is strictly
\* greater than the watermark, each of them once.
FilterKeepsExactlyNew ==
    fpc = "done" =>
        /\ Returned = {k \in DOMAIN all_elements :
                         \/ last_published_at = NoTime
                         \/ all_elements[k] = NoTime
                         \/ all_elements[k] > last_published_at}
        /\ Cardinality(Returned) = Len(filtered_elements)

\* C12 witness: times [W-1, W, W+1, absent] with W = 2 yield the elements
\* with W+1 and with no time.
WitnessAroundWatermark ==
    /\ fpc = "done"
    /\ last_published_at = 2
    /\ all_elements = <<1, 2, 3, NoTime>>
    /\ filtered_elements = <<3, 4>>

\* the list is in descending order of publish time, the elements without a
\* publish time after all the others
SortedDescending ==
    \A j1, j2 \in DOMAIN filtered_elements :
        j1 < j2 =>
            LET t1 == all_elements[filtered_elements[j1]]
                t2 == all_elements[filtered_elements[j2]]
            IN  \/ t2 = NoTime
                \/ (t1 # NoTime /\ t1 >= t2)

\* C13 (as claimed): for every watermark, present or absent, the returned
\* list is in descending order of publish time with absent times last.
FilterOutputSorted ==
    fpc = "done" => SortedDescending

\* C13 (amended): when the watermark is present the returned list is in
\* descending order of publish time with absent times last; when it is
\* absent the input list is returned as it is, in page order.
FilterOutputSortedWhenWatermark ==
    fpc = "done" =>
        /\ last_published_at # NoTime => SortedDescending
        /\ last_published_at = NoTime =>
               filtered_elements = [k \in 1..Len(all_elements) |-> k]

\* C13 witness: with a watermark, an element without a time that came first
\* on the page is returned after the two newer elements, newest first.
WitnessResorted ==
    /\ fpc = "done"
    /\ last_published_at = 1
    /\ all_elements = <<NoTime, 2, 3>>
    /\ filtered_elements = <<3, 2, 1>>

\* ====================================================================
\* Claims about Record validation (under SpecValid)
\* ====================================================================

\* s without its leading and trailing spaces
Trimmed(s) ==
    IF \A k \in DOMAIN s : IsSpace(s[k]) THEN <<>>
    ELSE LET first == CHOOSE k \in DOMAIN s :
                          ~IsSpace(s[k]) /\ \A j \in 1..(k - 1) : IsSpace(s[j])
             final == CHOOSE k \in DOMAIN s :
                          ~IsSpace(s[k]) /\ \A j \in (k + 1)..Len(s) : IsSpace(s[j])
         IN  SubSeq(s, first, final)

\* C16 (as claimed): is_valid() is true if and only if url starts with
\* http:// or https://, url stripped is non-empty, summary stripped has at
\* least 3 characters, and type and id are non-empty.
ValidIffUrlHasScheme ==
    vpc = "done" =>
        (is_valid <=>
            /\ (StartsWith(record.url, HttpPrefix) \/ StartsWith(record.url, HttpsPrefix))
            /\ Len(Trimmed(record.url)) > 0
            /\ Len(Trimmed(record.summary)) >= 3
            /\ record.type # <<>>
            /\ record.id # <<>>)

\* C16 (amended): is_valid() is true if and only if url, stripped of its
\* surrounding whitespace, starts with http:// or https://, summary stripped
\* has at least 3 characters, and type and id are non-empty.
ValidIffStrippedUrlHasScheme ==
    vpc = "done" =>
        (is_valid <=>
            /\ \/ StartsWith(Trimmed(record.url), HttpPrefix)
               \/ StartsWith(Trimmed(record.url), HttpsPrefix)
            /\ Len(Trimmed(record.url)) > 0
            /\ Len(Trimmed(record.summary)) >= 3
            /\ record.type # <<>>
            /\ record.id # <<>>)

\* C16 witness: a Record whose url has whitespace around an https URL and
\* whose summary has three characters between spaces is valid.
WitnessValidWithWhitespace ==
    /\ vpc = "done"
    /\ is_valid
    /\ record.url = <<" ">> \o UrlA \o <<" ">>
    /\ record.summary = <<" ", "a", "b", "c", " ">>

\* ====================================================================
\* Claims about the configuration (under SpecConfig)
\* ====================================================================

\* C18: the worker count and the batch size the batch processor runs with
\* lie in 1..10 and 1..20: a configured value outside these bounds never
\* reaches a worker pool or a slice of the batch processor
ProcessorRunsWithinConfiguredBounds ==
    cpc = "ran" =>
        /\ pool.max_workers \in ValidMaxWorkers
        /\ pool.batch_size \in ValidBatchSize

\* ====================================================================
\* Claims about the processing of one element (under SpecElement)
\* ====================================================================

\* no time-bearing sub-element has a datetime attribute that parses or a
\* text that reads as a relative time
NoParseableTime(time_elements) ==
    \A k \in DOMAIN time_elements :
        /\ ParseCryptopanicDatetime(time_elements[k].attr) = NoTime
        /\ ParseRelativeTime(time_elements[k].text, Now) = NoTime

\* C19: when no time-bearing sub-element of an element yields a parseable
\* attribute or relative-time text, the Record built from the element has
\* no publish time; it is never given the current time instead
AbsentTimeStaysAbsent ==
    (epc \in {"built", "done"} /\ data_source # NoRecord
        /\ NoParseableTime(element.times)) =>
        /\ data_source.published_at = NoTime
        /\ result.success => result.data_source.published_at = NoTime

WitnessUnparseableTimes ==
    /\ epc = "done"
    /\ result.success
    /\ Len(element.times) = 2
    /\ element.times[1].attr.form = "strict_bad_fields"
    /\ element.times[1].text = <<"just", "now">>
    /\ element.times[2].attr.form = "junk"
    /\ result.data_source.published_at = NoTime

\* C20: when the title and the internal URL of an element can be extracted,
\* the element is not press and no external URL is resolved,
\* _extract_data_source returns a Record whose summary is the title, whose
\* URL is the internal URL made absolute against BASE_URL and whose
\* raw_content carries the source tag, the currencies and the source domain
ExtractDataSourceReturnsInternalRecord ==
    (epc = "extracted" /\ element.title # <<>>
        /\ element.href \in {<<"/", "n", "e", "w", "s", "/", "1">>,
                              UrlText("internal")}
        /\ ~element.press /\ element.resolved = None
        /\ element.currencies # <<>> /\ element.source_domain # <<>>) =>
        /\ extracted # NoRecord
        /\ extracted.summary = element.title
        /\ extracted.url = NormalizeUrl(element.href)
        /\ extracted.raw_content["source"] = <<"cryptopanic">>
        /\ extracted.raw_content["currencies"] = element.currencies
        /\ extracted.raw_content["source_domain"] = element.source_domain

\* ====================================================================
\* Claims about validation before success and persistence (under
\* SpecValidated)
\* ====================================================================

\* C15: every Record _process_single_element returns as a success, every
\* Record the store issues an INSERT for and every row of the table passes
\* is_valid
OnlyValidRecordsSucceedOrPersist ==
    /\ result.success => IsValid(result.data_source)
    /\ last.issuedValid
    /\ \A id \in RecordIds : table[id] > 0 => IsValid(Rec(id))

WitnessOnlyValidInserted ==
    /\ last.bulkFailed
    /\ last.nValid > 1
    /\ last.added > 0
    /\ last.issuedValid
    /\ table["bad"] = 0

\* ====================================================================
\* Claims about one run of the application (under SpecRun)
\* ====================================================================

\* C14: in a run where the store returns a watermark W, the batch processor
\* is only given elements that are new with respect to W: no element whose
\* publish time is W or older is processed
OnlyNewElementsProcessed ==
    (watermark # NoTime /\ rpc \notin {"setup", "check", "scrape"}) =>
        \A k \in DOMAIN processed :
            \/ page[processed[k]].published_at = NoTime
            \/ page[processed[k]].published_at > watermark

\* save_data_sources returned and every new Record has a row in the table
SavedThroughStore ==
    /\ saved_successfully
    /\ \A k \in DOMAIN new_data_sources :
           RowsWithUrl(table, Rec(new_data_sources[k].rec).url) > 0

\* C17: a run in which only the database is unavailable does not fail, and
\* the fallback JSON file is written exactly when there are new Records and
\* they were not saved through the store
FallbackExactlyWhenNotSaved ==
    /\ rpc # "failed"
    /\ rpc = "done" =>
           (fallback_written <=>
               (new_data_sources # <<>> /\ ~SavedThroughStore))

\* the Record of position k of new_data_sources is in the fallback JSON file
InFallbackJson(k) ==
    /\ fallback_written
    /\ \E j \in DOMAIN fallback_json : fallback_json[j] = new_data_sources[k]

\* C27: in a run that ended without raising and had a new Record, every
\* new Record (all Records of a page are valid) has a row with its URL in
\* the table or is in the fallback JSON file.
EveryNewRecordReachesASink ==
    (rpc = "done" /\ new_data_sources # <<>>) =>
        \A k \in DOMAIN new_data_sources :
            \/ RowsWithUrl(table, Rec(new_data_sources[k].rec).url) > 0
            \/ InFallbackJson(k)

\* C28: when run_scraping has ended, by a return or by an exception, and
\* had established the connection pool, storage.close() was called (and
\* closed the pool unless pool.close() itself raised).
StorageClosedWhenRunEnds ==
    (rpc \in {"done", "failed", "scrape_failed"} /\ database.connects) =>
        \/ storage = "closed"
        \/ rpc = "failed" /\ database.closeFails

\* the Records of ds that are new with respect to the watermark w
NewWithRespectTo(ds, w) ==
    SelectSeq(ds, LAMBDA d : d.published_at = NoTime \/ d.published_at > w)

\* C30: once filter_new_articles has run, the Records handed on are, with
\* a watermark W, exactly the scraped Records whose publish time is absent
\* or greater than W, and without a watermark all scraped Records; the
\* store and the fallback JSON file are given exactly these Records.
OnlyNewRecordsHandedOn ==
    /\ rpc \notin {"setup", "check", "scrape", "filter", "scrape_failed"} =>
          /\ watermark # NoTime =>
                /\ new_data_sources = NewWithRespectTo(all_data_sources, watermark)
                /\ \A k \in DOMAIN new_data_sources :
                      \/ new_data_sources[k].published_at = NoTime
                      \/ new_data_sources[k].published_at > watermark
          /\ watermark = NoTime => new_data_sources = all_data_sources
    /\ input # <<>> => input = RecordsOf(new_data_sources)
    /\ fallback_written => fallback_json = new_data_sources

\* C30 witness: a finished run with a watermark in which one scraped Record
\* with the publish time of the watermark was dropped and a newer one was
\* handed to the store.
WitnessOldRecordDropped ==
    /\ rpc = "done"
    /\ watermark # NoTime
    /\ Len(all_data_sources) = 2
    /\ Len(new_data_sources) = 1
    /\ \E k \in DOMAIN all_data_sources :
          all_data_sources[k].published_at = watermark
    /\ new_data_sources[1].published_at > watermark
    /\ input = RecordsOf(new_data_sources)

\* ====================================================================
\* Claims about currency extraction (under SpecCurrency)
\* ====================================================================

\* the link texts that are shown: stripped and not empty
ShownTexts(links) ==
    SelectSeq([k \in DOMAIN links |-> SafeGetText(links[k])],
              LAMBDA t : t # <<>>)

\* C24: _extract_currencies returns the currency symbols of the element in
\* first-occurrence order with duplicates removed.
CurrenciesDeduplicated ==
    kpc = "done" =>
        /\ extracted_currencies = FirstOccurrences(ShownTexts(currency_links))
        /\ \A p, q \in DOMAIN extracted_currencies :
              p # q => extracted_currencies[p] # extracted_currencies[q]

=============================================================================
